---- MODULE Spec2Model ----
(***************************************************************************)
(* Resumable, session-scoped export pipeline of the Telegram exporter:     *)
(* FileManager's progress document and record writers                      *)
(* (src/src/file_manager.py), the wrapper around the remote source         *)
(* (src/src/telegram_client_wrapper.py) and the three export pipelines of  *)
(* TelegramExporter (src/src/telegram_exporter.py).                        *)
(*                                                                         *)
(* One session is selected (FileManager.current_session is set).  A run    *)
(* is one call of export_contacts, export_chats or export_chat_members     *)
(* with its resume argument; it advances one code step at a time and can   *)
(* be interrupted between any two steps, after which only the files on     *)
(* disk survive.  The timestamp field of a progress entry is left out: no  *)
(* code path reads it back into a decision.                                *)
(***************************************************************************)
EXTENDS Integers, Sequences, FiniteSets, TLC

\* ------------------------------------------------------------------------
\* Bounds of the model
\* ------------------------------------------------------------------------

\* number of export runs started in one behaviour
MaxRuns == 2
\* longest contact / dialog list the source returns
MaxItems == 11
\* chat ids the source can return are 1..MaxChats
MaxChats == 3
\* most participants a chat has
MaxMembers == 2

\* ------------------------------------------------------------------------
\* Program constants
\* ------------------------------------------------------------------------

\* contacts / chats checkpoint interval: (i + 1) % 10 == 0
CheckpointEvery == 10

ListKinds == {"contacts", "chats"}

contacts_fieldnames ==
    <<"id", "first_name", "last_name", "username", "phone", "is_bot", "is_contact">>

chats_fieldnames ==
    <<"id", "first_name", "last_name", "username", "phone", "is_contact",
      "last_message_date", "unread_count">>

members_fieldnames ==
    <<"chat_id", "chat_title", "chat_type", "user_id", "first_name", "last_name",
      "username", "phone", "is_bot", "is_premium", "is_verified">>

\* ------------------------------------------------------------------------
\* Sequences
\* ------------------------------------------------------------------------

Range(s) == {s[j] : j \in 1..Len(s)}

Distinct(s) == \A a, b \in 1..Len(s) : a # b => s[a] # s[b]

\* ------------------------------------------------------------------------
\* The remote source
\* ------------------------------------------------------------------------

\* a contact or dialog record, as get_contacts / get_chats build it
ItemRecord(n) == [id |-> n]

\* lengths of the lists the contact / dialog source returns: none, a short
\* one and one that crosses the checkpoint interval
SourceLens == {0, 2, MaxItems}

\* lists the contact / dialog source can return
SourceLists == {[j \in 1..n |-> ItemRecord(j)] : n \in SourceLens}

Reverse(s) == [j \in 1..Len(s) |-> s[Len(s) + 1 - j]]

\* chat lists get_all_group_chats can return: the chats 1..n in either
\* order, or one chat alone, so that chats come, go and change places
\* between runs
ChatLists ==
    LET up == {[j \in 1..n |-> j] : n \in 0..MaxChats}
    IN up \cup {Reverse(s) : s \in up} \cup {<<c>> : c \in 1..MaxChats}

\* participants the remote source holds for a chat: between 1 and MaxMembers
\* users (the account itself is one of them)
participants(chat_id) == 1..(1 + (chat_id % MaxMembers))

\* what the remote call for one chat's participants does: it returns them or
\* fails for lack of access
RemoteOutcomes == {"ok", "access_error"}

\* get_chat_members_for_chat: one record per participant; an error of the
\* remote call is caught inside and leaves the list empty
get_chat_members_for_chat(chat_id, outcome) ==
    IF outcome = "ok"
    THEN [u \in participants(chat_id) |-> [chat_id |-> chat_id, user_id |-> u]]
    ELSE <<>>

\* ------------------------------------------------------------------------
\* Files
\* ------------------------------------------------------------------------

NoFile == [exists |-> FALSE, content |-> <<>>]
File(content) == [exists |-> TRUE, content |-> content]

\* csv.DictWriter.writerow: one cell per field name, the value as text, and
\* the empty string for a field the record lacks
csv_row(rec, fieldnames) ==
    [j \in 1..Len(fieldnames) |->
        IF fieldnames[j] \in DOMAIN rec THEN ToString(rec[fieldnames[j]]) ELSE ""]

csv_rows(recs, fieldnames) == [j \in 1..Len(recs) |-> csv_row(recs[j], fieldnames)]

\* ------------------------------------------------------------------------
\* Progress document
\* ------------------------------------------------------------------------

\* finished is never taken from data
progress_entry_unfinished(data) ==
    [completed       |-> IF "completed" \in DOMAIN data THEN data.completed ELSE 0,
     total           |-> IF "total" \in DOMAIN data THEN data.total ELSE 0,
     finished        |-> FALSE,
     processed_items |-> IF "processed_items" \in DOMAIN data
                         THEN data.processed_items ELSE <<>>]

\* the entry save_progress builds from data, with its defaults
progress_entry(data) ==
    [completed       |-> IF "completed" \in DOMAIN data THEN data.completed ELSE 0,
     total           |-> IF "total" \in DOMAIN data THEN data.total ELSE 0,
     finished        |-> IF "finished" \in DOMAIN data THEN data.finished ELSE FALSE,
     processed_items |-> IF "processed_items" \in DOMAIN data
                         THEN data.processed_items ELSE <<>>]

\* the document is replaced by the new entry alone
save_progress_entry_alone(doc, export_type, data) ==
    [k \in {export_type} |-> progress_entry(data)]

\* save_progress: read the whole document, replace the entry, write it back
save_progress(doc, export_type, data) ==
    [k \in DOMAIN doc \cup {export_type} |->
        IF k = export_type THEN progress_entry(data) ELSE doc[k]]

\* the entry of a kind as a zero- or one-element sequence
entry_of(doc, export_type) ==
    IF export_type \in DOMAIN doc THEN <<doc[export_type]>> ELSE <<>>

\* ------------------------------------------------------------------------
\* Record writers
\* ------------------------------------------------------------------------

\* the CSV is opened "a" instead of "w"
save_contacts_to_files_appending(fs, contacts) ==
    [fs EXCEPT
        !["contacts_csv"] =
            File(fs["contacts_csv"].content
                 \o <<contacts_fieldnames>> \o csv_rows(contacts, contacts_fieldnames)),
        !["contacts_json"] = File(contacts)]

\* save_contacts_to_files: both files are opened "w" and rewritten
save_contacts_to_files(fs, contacts) ==
    [fs EXCEPT
        !["contacts_csv"] =
            File(<<contacts_fieldnames>> \o csv_rows(contacts, contacts_fieldnames)),
        !["contacts_json"] = File(contacts)]

\* the CSV is opened "a" instead of "w"
save_chats_to_files_appending(fs, chats) ==
    [fs EXCEPT
        !["chats_csv"] =
            File(fs["chats_csv"].content
                 \o <<chats_fieldnames>> \o csv_rows(chats, chats_fieldnames)),
        !["dialogs_json"] = File(chats)]

\* save_chats_to_files: both files are opened "w" and rewritten
save_chats_to_files(fs, chats) ==
    [fs EXCEPT
        !["chats_csv"] = File(<<chats_fieldnames>> \o csv_rows(chats, chats_fieldnames)),
        !["dialogs_json"] = File(chats)]

\* the header is written by every call
save_chat_members_to_files_header_always(fs, members, append) ==
    IF members = <<>> THEN fs
    ELSE LET existing_members ==
                 IF append /\ fs["members_json"].exists
                 THEN fs["members_json"].content ELSE <<>>
         IN [fs EXCEPT
                !["members_csv"] =
                    File((IF append /\ fs["members_csv"].exists
                          THEN fs["members_csv"].content ELSE <<>>)
                         \o <<members_fieldnames>>
                         \o csv_rows(members, members_fieldnames)),
                !["members_json"] = File(existing_members \o members)]

\* the JSON is rewritten without the old content
save_chat_members_to_files_json_replaced(fs, members, append) ==
    IF members = <<>> THEN fs
    ELSE LET appending == append /\ fs["members_csv"].exists
         IN [fs EXCEPT
                !["members_csv"] =
                    File((IF appending THEN fs["members_csv"].content ELSE <<>>)
                         \o (IF appending THEN <<>> ELSE <<members_fieldnames>>)
                         \o csv_rows(members, members_fieldnames)),
                !["members_json"] = File(members)]

\* save_chat_members_to_files: nothing for an empty list; the CSV is opened
\* "a" without a header when append is asked and the file exists, "w" with a
\* header otherwise; the JSON is rewritten with the old content in front
\* when append is asked and the file exists
save_chat_members_to_files(fs, members, append) ==
    IF members = <<>> THEN fs
    ELSE LET csv_there == fs["members_csv"].exists
             mode == IF append /\ csv_there THEN "a" ELSE "w"
             write_header == ~(append /\ csv_there)
             existing_members ==
                 IF append /\ fs["members_json"].exists
                 THEN fs["members_json"].content ELSE <<>>
             all_members == IF append THEN existing_members \o members ELSE members
         IN [fs EXCEPT
                !["members_csv"] =
                    File((IF mode = "a" THEN fs["members_csv"].content ELSE <<>>)
                         \o (IF write_header THEN <<members_fieldnames>> ELSE <<>>)
                         \o csv_rows(members, members_fieldnames)),
                !["members_json"] = File(all_members)]

\* os.remove of both chat-member files when they exist
clear_chat_member_files(fs) ==
    [fs EXCEPT !["members_csv"] = NoFile, !["members_json"] = NoFile]

FileNames ==
    {"contacts_csv", "contacts_json", "chats_csv", "dialogs_json",
     "members_csv", "members_json"}

\* ------------------------------------------------------------------------
\* Sessions and the progress file as text
\* ------------------------------------------------------------------------

\* session names; every file path carries the session's name
Sessions == {"s1", "s2"}

\* current_session = None
NoSession == "None"

Kinds == {"contacts", "chats", "chat_members"}

KindOrder == <<"contacts", "chats", "chat_members">>

\* a progress file that does not exist
NoText == [exists |-> FALSE, pairs |-> <<>>, closed |-> FALSE]

\* json.dump of the progress document: the opening brace, one key / entry
\* pair per kind present, the closing brace
json_dump(doc) ==
    LET Present(k) == k \in DOMAIN doc
        keys == SelectSeq(KindOrder, Present)
    IN [exists |-> TRUE,
        pairs |-> [j \in 1..Len(keys) |-> <<keys[j], doc[keys[j]]>>],
        closed |-> TRUE]

\* a text json.load parses: it has both braces
parses(text) == text.closed

\* json.load of a text that parses: the mapping of its pairs
json_load(text) ==
    [k \in {text.pairs[j][1] : j \in 1..Len(text.pairs)} |->
        text.pairs[CHOOSE j \in 1..Len(text.pairs) : text.pairs[j][1] = k][2]]

\* what is left of a write that stops after n pairs: no closing brace
torn(text, n) == [exists |-> TRUE, pairs |-> SubSeq(text.pairs, 1, n), closed |-> FALSE]

\* ------------------------------------------------------------------------
\* State
\* ------------------------------------------------------------------------

VARIABLES
    progress,            \* the session's progress document: kind -> entry
    files,               \* the session's export files
    pc,                  \* position of the running export, "idle" when none
    kind,                \* kind of the current / last run
    resume,              \* resume argument of the current / last run
    src,                 \* list fetched from the source by the current / last run
    items,               \* contacts / chats left after the resume slice
    pos,                 \* next position of the loop in items / all_chats
    completed,           \* completed (export_contacts, export_chats)
    item_list,           \* contact_list / chat_list
    processed_chat_ids,  \* processed_chat_ids (export_chat_members)
    completed_chats,     \* completed_chats (export_chat_members)
    total_members,       \* total_members (export_chat_members)
    chat_members,        \* members fetched for the chat in hand
    ret,                 \* value returned by the last run, 0 until it returns
    status,              \* "none", "running", "returned", "interrupted"
    runs,                \* runs started so far
    start_entry,         \* the kind's progress entry as the current / last run found it
    attempts,            \* member fetches of the current / last run, in order
    source_calls,        \* list fetches from the source by the current / last run
    saves,               \* entries the current / last run passed to save_progress, in order
    current_session,     \* FileManager.current_session, NoSession when None
    session_progress,    \* session -> its progress file as text on disk
    session_files,       \* session -> its export files on disk
    calls,               \* calls made on the FileManager objects so far, in order
    nicknames_file,      \* nicknames.txt: its lines, or absent
    match_files,         \* the current session's nickname-match files
    match_ret,           \* cross_reference_nicknames calls so far; whether one returned since
                         \* nicknames.txt was written, and what it returned
    phone,               \* the phone create_session_name is called with
    session_name,        \* what create_session_name returned, <<>> before the call
    session_info,        \* session -> its <name>_info.json as text on disk
    session_blob,        \* sessions whose <name>.session file exists
    menu_session,        \* MenuManager.current_session, NoSession when None
    client,              \* session TelegramClientWrapper.client was created for, NoSession when None
    clock,               \* readings of datetime.now() so far
    app,                 \* "stopped" or "running"
    sm_ret,              \* the last menu handler and what it did
    proc_pc,             \* process -> where it is in its save_progress call
    proc_call,           \* process -> export_type and data of its current / last call
    proc_doc,            \* process -> current_progress, the document it loaded
    proc_saved,          \* process -> calls that returned and the entry the last one saved
    proc_overlap,        \* some call began while a call of the other process was under way
    legacy_progress,     \* export.py: self.progress, which is also the progress file
    legacy_files,        \* export.py: the two chat-member files
    legacy_pc,           \* export.py: position of export_chat_members, "idle" when none
    legacy_run,          \* export.py: runs so far, resume and total_chats of the last one
    legacy_completed_chats, \* export.py: completed_chats, the resume offset
    legacy_processed_chats, \* export.py: processed_chats
    legacy_all_members,  \* export.py: all_members
    legacy_ret,          \* export.py: what the last run returned
    menu_ask             \* main menu: the last export choice and what ask_resume did for it

vars ==
    <<progress, files, pc, kind, resume, src, items, pos, completed, item_list,
      processed_chat_ids, completed_chats, total_members, chat_members, ret,
      status, runs, start_entry, attempts, source_calls, saves,
      current_session, session_progress, session_files, calls,
      nicknames_file, match_files, match_ret,
      phone, session_name, session_info, session_blob, menu_session, client,
      clock, app, sm_ret,
      proc_pc, proc_call, proc_doc, proc_saved, proc_overlap,
      legacy_progress, legacy_files, legacy_pc, legacy_run,
      legacy_completed_chats, legacy_processed_chats, legacy_all_members,
      legacy_ret, menu_ask>>

\* the state of TelegramExporter's runs
run_vars ==
    <<progress, files, pc, kind, resume, src, items, pos, completed, item_list,
      processed_chat_ids, completed_chats, total_members, chat_members, ret,
      status, runs, start_entry, attempts, source_calls, saves>>

\* the state the FileManager methods are called in, one by one
fm_vars == <<current_session, session_progress, session_files, calls>>

\* the state of the nickname cross-reference
match_vars == <<nicknames_file, match_files, match_ret>>

\* the state of the session registry and of the menu that drives it
sm_vars ==
    <<phone, session_name, session_info, session_blob, menu_session, client,
      clock, app, sm_ret>>

\* the state of two processes that save progress for one session
race_vars == <<proc_pc, proc_call, proc_doc, proc_saved, proc_overlap>>

\* the state of the single-file exporter export.py
legacy_vars ==
    <<legacy_progress, legacy_files, legacy_pc, legacy_run,
      legacy_completed_chats, legacy_processed_chats, legacy_all_members,
      legacy_ret>>

\* the state of the remaining parts
rest_vars == <<race_vars, legacy_vars, menu_ask>>

\* what neither an export run nor a progress or record call touches
ext_vars == <<match_vars, sm_vars, rest_vars>>

list_locals == <<items, completed, item_list>>
member_locals == <<processed_chat_ids, completed_chats, total_members, chat_members>>
run_info == <<kind, resume, src, runs, start_entry, source_calls>>

InitRun ==
    /\ progress = <<>>
    /\ files = [f \in FileNames |-> NoFile]
    /\ pc = "idle"
    /\ kind = "contacts"
    /\ resume = FALSE
    /\ src = <<>>
    /\ items = <<>>
    /\ pos = 1
    /\ completed = 0
    /\ item_list = <<>>
    /\ processed_chat_ids = <<>>
    /\ completed_chats = 0
    /\ total_members = 0
    /\ chat_members = <<>>
    /\ ret = 0
    /\ status = "none"
    /\ runs = 0
    /\ start_entry = <<>>
    /\ attempts = <<>>
    /\ source_calls = 0
    /\ saves = <<>>

\* nothing on disk yet
InitDisk ==
    /\ session_progress = [s \in Sessions |-> NoText]
    /\ session_files = [s \in Sessions |-> [f \in FileNames |-> NoFile]]
    /\ calls = <<>>

\* no nickname list, no match files, no cross-reference yet
InitMatchIdle ==
    /\ nicknames_file = [exists |-> FALSE, lines |-> <<>>]
    /\ match_files = [f \in {"matches_csv", "matches_json"} |-> NoFile]
    /\ match_ret = [called |-> FALSE, ret |-> 0, n |-> 0]

\* no handler has run yet
NoHandler ==
    [op |-> "none", name |-> NoSession, api_id |-> "", api_hash |-> "",
     phone |-> <<>>, connected |-> FALSE, exported |-> FALSE]

\* an empty sessions directory and a program that is not running
InitSessionIdle ==
    /\ phone = <<>>
    /\ session_name = <<>>
    /\ session_info = [s \in Sessions |-> NoText]
    /\ session_blob = {}
    /\ menu_session = NoSession
    /\ client = NoSession
    /\ clock = 0
    /\ app = "stopped"
    /\ sm_ret = NoHandler

\* the processes that share a session
Procs == {1, 2}

NoCall == [export_type |-> "contacts", data |-> <<>>]

\* no process has called save_progress
InitRaceIdle ==
    /\ proc_pc = [p \in Procs |-> "idle"]
    /\ proc_call = [p \in Procs |-> NoCall]
    /\ proc_doc = [p \in Procs |-> <<>>]
    /\ proc_saved = [p \in Procs |-> [n |-> 0, entry |-> <<>>]]
    /\ proc_overlap = FALSE

\* export.py has not run: no progress file, no chat-member files
InitLegacy ==
    /\ legacy_progress = <<>>
    /\ legacy_files = [f \in {"members_csv", "members_json"} |-> NoFile]
    /\ legacy_pc = "idle"
    /\ legacy_run = [n |-> 0, resume |-> FALSE, total_chats |-> 0]
    /\ legacy_completed_chats = 0
    /\ legacy_processed_chats = 0
    /\ legacy_all_members = <<>>
    /\ legacy_ret = 0

\* the export kinds, as save_progress is given them
ExportKinds == {"contacts", "chats", "chat_members"}

\* no export was chosen from the main menu yet
InitMenuAsk ==
    menu_ask = [choice |-> "0", base |-> 0,
                asked |-> [k \in ExportKinds |-> FALSE],
                typed |-> [k \in ExportKinds |-> ""],
                resume |-> [k \in ExportKinds |-> FALSE]]

InitRest == InitRaceIdle /\ InitLegacy /\ InitMenuAsk

InitExt == InitMatchIdle /\ InitSessionIdle /\ InitRest

\* run() has selected a session before any export; progress and files are
\* that session's documents
Init ==
    /\ InitRun
    /\ InitDisk
    /\ InitExt
    /\ current_session = "s1"

\* locals of a run that is over
ResetLocals ==
    /\ items' = <<>>
    /\ pos' = 1
    /\ completed' = 0
    /\ item_list' = <<>>
    /\ processed_chat_ids' = <<>>
    /\ completed_chats' = 0
    /\ total_members' = 0
    /\ chat_members' = <<>>

\* ------------------------------------------------------------------------
\* export_contacts / export_chats
\* ------------------------------------------------------------------------

\* the resume slice is forgotten
remaining_items_all(L, c) == L

\* contacts[completed:]
remaining_items(L, c) == SubSeq(L, c + 1, Len(L))

\* the checkpoint tests i instead of i + 1
checkpoint_due_off_by_one(i) == i % CheckpointEvery = 0

\* (i + 1) % 10 == 0
checkpoint_due(i) == (i + 1) % CheckpointEvery = 0

\* fetch the full list, slice it when resuming, start the loop
export_list_start(k) ==
    /\ pc = "idle"
    /\ runs < MaxRuns
    /\ \E L \in SourceLists, r \in BOOLEAN :
        LET c == IF r /\ k \in DOMAIN progress THEN progress[k].completed ELSE 0
        IN /\ kind' = k
           /\ resume' = r
           /\ src' = L
           /\ completed' = c
           /\ items' = remaining_items(L, c)
    /\ pos' = 1
    /\ item_list' = <<>>
    /\ pc' = "loop"
    /\ status' = "running"
    /\ runs' = runs + 1
    /\ start_entry' = entry_of(progress, k)
    /\ attempts' = <<>>
    /\ source_calls' = 1
    /\ saves' = <<>>
    /\ ret' = 0
    /\ UNCHANGED <<progress, files>>
    /\ UNCHANGED member_locals
    /\ UNCHANGED fm_vars
    /\ UNCHANGED ext_vars

\* one iteration: buffer the item, checkpoint when i + 1 is a multiple of 10
export_list_iter(k) ==
    /\ pc = "loop"
    /\ kind = k
    /\ pos <= Len(items)
    /\ LET i == completed + pos - 1
           data == [completed |-> i + 1, total |-> Len(src), finished |-> FALSE]
       IN IF checkpoint_due(i)
          THEN /\ progress' = save_progress(progress, k, data)
               /\ saves' = Append(saves, progress_entry(data))
          ELSE UNCHANGED <<progress, saves>>
    /\ item_list' = Append(item_list, items[pos])
    /\ pos' = pos + 1
    /\ UNCHANGED <<files, pc, items, completed, ret, status, attempts>>
    /\ UNCHANGED member_locals
    /\ UNCHANGED run_info
    /\ UNCHANGED fm_vars
    /\ UNCHANGED ext_vars

\* after the loop: write the buffered items to both files
export_list_write(k) ==
    /\ pc = "loop"
    /\ kind = k
    /\ pos > Len(items)
    /\ files' = IF k = "contacts" THEN save_contacts_to_files(files, item_list)
                ELSE save_chats_to_files(files, item_list)
    /\ pc' = "final"
    /\ UNCHANGED <<progress, pos, ret, status, attempts, saves>>
    /\ UNCHANGED list_locals
    /\ UNCHANGED member_locals
    /\ UNCHANGED run_info
    /\ UNCHANGED fm_vars
    /\ UNCHANGED ext_vars

\* the final progress save and the return of total
export_list_final(k) ==
    /\ pc = "final"
    /\ kind = k
    /\ LET data == [completed |-> Len(src), total |-> Len(src), finished |-> TRUE]
       IN /\ progress' = save_progress(progress, k, data)
          /\ saves' = Append(saves, progress_entry(data))
    /\ ret' = Len(src)
    /\ pc' = "idle"
    /\ status' = "returned"
    /\ ResetLocals
    /\ UNCHANGED <<files, attempts>>
    /\ UNCHANGED run_info
    /\ UNCHANGED fm_vars
    /\ UNCHANGED ext_vars

export_contacts ==
    \/ export_list_start("contacts")
    \/ export_list_iter("contacts")
    \/ export_list_write("contacts")
    \/ export_list_final("contacts")

export_chats ==
    \/ export_list_start("chats")
    \/ export_list_iter("chats")
    \/ export_list_write("chats")
    \/ export_list_final("chats")

\* ------------------------------------------------------------------------
\* export_chat_members
\* ------------------------------------------------------------------------

\* only the chat handled last is recognised
is_processed_last_only(chat_id, ids) == ids # <<>> /\ chat_id = ids[Len(ids)]

\* no chat is recognised
is_processed_never(chat_id, ids) == FALSE

\* chat_id in processed_chat_ids
is_processed(chat_id, ids) == chat_id \in Range(ids)

\* append is never asked
append_flag_never(n, ids) == FALSE

\* append=(completed_chats > 0 or len(processed_chat_ids) > 0)
append_flag(n, ids) == n > 0 \/ Len(ids) > 0

\* the chat is counted but not listed
try_mark_unlisted(ids, n, chat_id) == [ids |-> ids, n |-> n + 1]

\* in the try block: processed_chat_ids.append(chat_id); completed_chats += 1
try_mark(ids, n, chat_id) == [ids |-> Append(ids, chat_id), n |-> n + 1]

\* the handler forgets the count
except_mark_uncounted(ids, n, chat_id) == [ids |-> Append(ids, chat_id), n |-> n]

\* in the handler: processed_chat_ids.append(chat_id); completed_chats += 1
except_mark(ids, n, chat_id) == [ids |-> Append(ids, chat_id), n |-> n + 1]

\* "finished": completed_chats >= total_chats
finished_flag(n, total) == n >= total

\* the source returns no group or channel: return 0 before anything else
export_chat_members_empty ==
    /\ pc = "idle"
    /\ runs < MaxRuns
    /\ \E r \in BOOLEAN : resume' = r
    /\ kind' = "chat_members"
    /\ src' = <<>>
    /\ ret' = 0
    /\ status' = "returned"
    /\ runs' = runs + 1
    /\ start_entry' = entry_of(progress, "chat_members")
    /\ attempts' = <<>>
    /\ source_calls' = 1
    /\ saves' = <<>>
    /\ UNCHANGED <<progress, files, pc, pos>>
    /\ UNCHANGED list_locals
    /\ UNCHANGED member_locals
    /\ UNCHANGED fm_vars
    /\ UNCHANGED ext_vars

\* fetch the chat list; take processed_chat_ids and completed_chats from the
\* persisted entry when resuming, else start from nothing and, when resume
\* is false, remove both output files
export_chat_members_start ==
    /\ pc = "idle"
    /\ runs < MaxRuns
    /\ \E L \in ChatLists \ {<<>>}, r \in BOOLEAN :
        /\ resume' = r
        /\ src' = L
        /\ IF r /\ "chat_members" \in DOMAIN progress
           THEN /\ processed_chat_ids' = progress["chat_members"].processed_items
                /\ completed_chats' = progress["chat_members"].completed
                /\ files' = files
           ELSE /\ processed_chat_ids' = <<>>
                /\ completed_chats' = 0
                /\ files' = IF ~r THEN clear_chat_member_files(files) ELSE files
    /\ kind' = "chat_members"
    /\ total_members' = 0
    /\ chat_members' = <<>>
    /\ pos' = 1
    /\ pc' = "m_loop"
    /\ status' = "running"
    /\ runs' = runs + 1
    /\ start_entry' = entry_of(progress, "chat_members")
    /\ attempts' = <<>>
    /\ source_calls' = 1
    /\ saves' = <<>>
    /\ ret' = 0
    /\ UNCHANGED progress
    /\ UNCHANGED list_locals
    /\ UNCHANGED fm_vars
    /\ UNCHANGED ext_vars

\* loop head, chat already in processed_chat_ids: continue
export_chat_members_skip ==
    /\ pc = "m_loop"
    /\ pos <= Len(src)
    /\ is_processed(src[pos], processed_chat_ids)
    /\ pos' = pos + 1
    /\ UNCHANGED <<progress, files, pc, ret, status, attempts, saves>>
    /\ UNCHANGED list_locals
    /\ UNCHANGED member_locals
    /\ UNCHANGED run_info
    /\ UNCHANGED fm_vars
    /\ UNCHANGED ext_vars

\* the member fetch of the chat in hand returns a list: append-write the
\* members when there are any, then mark the chat processed
export_chat_members_fetch ==
    /\ pc = "m_loop"
    /\ pos <= Len(src)
    /\ ~is_processed(src[pos], processed_chat_ids)
    /\ \E out \in RemoteOutcomes :
        /\ chat_members' = get_chat_members_for_chat(src[pos], out)
        /\ attempts' = Append(attempts, [chat |-> src[pos], res |-> out])
    /\ files' = save_chat_members_to_files(files, chat_members',
                    append_flag(completed_chats, processed_chat_ids))
    /\ total_members' = total_members + Len(chat_members')
    /\ processed_chat_ids' = try_mark(processed_chat_ids, completed_chats, src[pos]).ids
    /\ completed_chats' = try_mark(processed_chat_ids, completed_chats, src[pos]).n
    /\ pc' = "m_save"
    /\ UNCHANGED <<progress, pos, ret, status, saves>>
    /\ UNCHANGED list_locals
    /\ UNCHANGED run_info
    /\ UNCHANGED fm_vars
    /\ UNCHANGED ext_vars

\* an exception leaves the try block before the chat is marked (raised by the
\* member fetch, or by the write before it touched a file): the handler marks
\* the chat processed and continues with the next chat, without a save
export_chat_members_except ==
    /\ pc = "m_loop"
    /\ pos <= Len(src)
    /\ ~is_processed(src[pos], processed_chat_ids)
    /\ attempts' = Append(attempts, [chat |-> src[pos], res |-> "raise"])
    /\ processed_chat_ids' = except_mark(processed_chat_ids, completed_chats, src[pos]).ids
    /\ completed_chats' = except_mark(processed_chat_ids, completed_chats, src[pos]).n
    /\ pos' = pos + 1
    /\ UNCHANGED <<progress, files, pc, total_members, chat_members, ret, status,
                   saves>>
    /\ UNCHANGED list_locals
    /\ UNCHANGED run_info
    /\ UNCHANGED fm_vars
    /\ UNCHANGED ext_vars

\* save progress for this chat, go to the next one
export_chat_members_save ==
    /\ pc = "m_save"
    /\ LET data == [completed |-> completed_chats,
                    total |-> Len(src),
                    finished |-> finished_flag(completed_chats, Len(src)),
                    processed_items |-> processed_chat_ids]
       IN /\ progress' = save_progress(progress, "chat_members", data)
          /\ saves' = Append(saves, progress_entry(data))
    /\ chat_members' = <<>>
    /\ pos' = pos + 1
    /\ pc' = "m_loop"
    /\ UNCHANGED <<files, processed_chat_ids, completed_chats, total_members, ret,
                   status, attempts>>
    /\ UNCHANGED list_locals
    /\ UNCHANGED run_info
    /\ UNCHANGED fm_vars
    /\ UNCHANGED ext_vars

\* after the loop: the final progress save and the return of total_members
export_chat_members_final ==
    /\ pc = "m_loop"
    /\ pos > Len(src)
    /\ LET data == [completed |-> completed_chats,
                    total |-> Len(src),
                    finished |-> TRUE,
                    processed_items |-> processed_chat_ids]
       IN /\ progress' = save_progress(progress, "chat_members", data)
          /\ saves' = Append(saves, progress_entry(data))
    /\ ret' = total_members
    /\ pc' = "idle"
    /\ status' = "returned"
    /\ ResetLocals
    /\ UNCHANGED <<files, attempts>>
    /\ UNCHANGED run_info
    /\ UNCHANGED fm_vars
    /\ UNCHANGED ext_vars

export_chat_members ==
    \/ export_chat_members_empty
    \/ export_chat_members_start
    \/ export_chat_members_skip
    \/ export_chat_members_fetch
    \/ export_chat_members_except
    \/ export_chat_members_save
    \/ export_chat_members_final

\* ------------------------------------------------------------------------
\* Interruption: the process ends between two steps; locals are lost
\* ------------------------------------------------------------------------

Interrupt ==
    /\ pc # "idle"
    /\ pc' = "idle"
    /\ status' = "interrupted"
    /\ ResetLocals
    /\ UNCHANGED <<progress, files, ret, attempts, saves>>
    /\ UNCHANGED run_info
    /\ UNCHANGED fm_vars
    /\ UNCHANGED ext_vars

Next ==
    \/ export_contacts
    \/ export_chats
    \/ export_chat_members
    \/ Interrupt

Spec == Init /\ [][Next]_vars

\* save_progress raises inside the try block, after the chat was marked (the
\* progress file cannot be parsed by load_progress, or cannot be opened for
\* writing): nothing is saved, the handler marks the chat and continues with
\* the next one
export_chat_members_save_raises ==
    /\ pc = "m_save"
    /\ processed_chat_ids' = except_mark(processed_chat_ids, completed_chats, src[pos]).ids
    /\ completed_chats' = except_mark(processed_chat_ids, completed_chats, src[pos]).n
    /\ chat_members' = <<>>
    /\ pos' = pos + 1
    /\ pc' = "m_loop"
    /\ UNCHANGED <<progress, files, total_members, ret, status, attempts, saves>>
    /\ UNCHANGED list_locals
    /\ UNCHANGED run_info
    /\ UNCHANGED fm_vars
    /\ UNCHANGED ext_vars

\* the member export with a progress store that can fail
NextSaveRaises ==
    \/ export_chat_members
    \/ Interrupt
    \/ export_chat_members_save_raises

SpecSaveRaises == Init /\ [][NextSaveRaises]_vars

\* ------------------------------------------------------------------------
\* FileManager, one call at a time: the progress store
\* ------------------------------------------------------------------------

\* calls one behaviour makes
MaxCalls == 4

\* data dictionaries handed to save_progress: with none, some and all of
\* the four keys
ProgressData ==
    {<<>>,
     [completed |-> 1, total |-> 2],
     [completed |-> 2, total |-> 2, finished |-> TRUE, processed_items |-> <<1, 2>>]}

\* FileManager(): no session yet
InitFileManager ==
    /\ InitRun
    /\ InitDisk
    /\ InitExt
    /\ current_session = NoSession

\* a new FileManager object (the program is started again)
FileManager_init ==
    /\ Len(calls) < MaxCalls
    /\ current_session' = NoSession
    /\ calls' = Append(calls, [op |-> "FileManager", session |-> current_session,
                               raised |-> FALSE])
    /\ UNCHANGED <<session_progress, session_files>>
    /\ UNCHANGED run_vars
    /\ UNCHANGED ext_vars

set_session ==
    /\ Len(calls) < MaxCalls
    /\ \E s \in Sessions :
        /\ current_session' = s
        /\ calls' = Append(calls, [op |-> "set_session", session |-> current_session,
                                   raised |-> FALSE, session_name |-> s])
    /\ UNCHANGED <<session_progress, session_files>>
    /\ UNCHANGED run_vars
    /\ UNCHANGED ext_vars

\* load_progress: {} without a session or without a file, else json.load of
\* the file, whose JSONDecodeError nothing catches
load_progress(cs, store) ==
    IF cs = NoSession THEN [raised |-> FALSE, doc |-> <<>>]
    ELSE IF ~store[cs].exists THEN [raised |-> FALSE, doc |-> <<>>]
    ELSE IF parses(store[cs]) THEN [raised |-> FALSE, doc |-> json_load(store[cs])]
    ELSE [raised |-> TRUE, doc |-> <<>>]

call_load_progress ==
    /\ Len(calls) < MaxCalls
    /\ LET r == load_progress(current_session, session_progress)
       IN calls' = Append(calls, [op |-> "load_progress", session |-> current_session,
                                  raised |-> r.raised, ret |-> r.doc])
    /\ UNCHANGED <<current_session, session_progress, session_files>>
    /\ UNCHANGED run_vars
    /\ UNCHANGED ext_vars

\* the whole document is replaced by the new entry alone
write_progress_entry_only(cs, store, export_type, data) ==
    [store EXCEPT ![cs] = json_dump([k \in {export_type} |-> progress_entry(data)])]

\* save_progress past its session check: load, replace the entry, dump
write_progress(cs, store, export_type, data) ==
    [store EXCEPT ![cs] =
        json_dump(save_progress(load_progress(cs, store).doc, export_type, data))]

\* save_progress: ValueError without a session; the load's exception goes
\* through; else the file of the current session is rewritten
call_save_progress ==
    /\ Len(calls) < MaxCalls
    /\ \E k \in Kinds, data \in ProgressData :
        LET fails == current_session = NoSession
                     \/ load_progress(current_session, session_progress).raised
        IN /\ session_progress' =
                IF fails THEN session_progress
                ELSE write_progress(current_session, session_progress, k, data)
           /\ calls' = Append(calls, [op |-> "save_progress", session |-> current_session,
                                      raised |-> fails, export_type |-> k, data |-> data])
    /\ UNCHANGED <<current_session, session_files>>
    /\ UNCHANGED run_vars
    /\ UNCHANGED ext_vars

\* the process ends while save_progress writes the file: open(..., "w") has
\* emptied it and json.dump got as far as n pairs
torn_save_progress ==
    /\ Len(calls) < MaxCalls
    /\ current_session # NoSession
    /\ ~load_progress(current_session, session_progress).raised
    /\ \E k \in Kinds, data \in ProgressData :
        LET new == write_progress(current_session, session_progress, k, data)
                       [current_session]
        IN \E n \in 0..Len(new.pairs) :
            /\ session_progress' =
                  [session_progress EXCEPT ![current_session] = torn(new, n)]
            /\ calls' = Append(calls, [op |-> "killed", session |-> current_session,
                                       raised |-> TRUE, export_type |-> k, data |-> data])
    /\ current_session' = NoSession
    /\ UNCHANGED session_files
    /\ UNCHANGED run_vars
    /\ UNCHANGED ext_vars

NextStore ==
    \/ FileManager_init
    \/ set_session
    \/ call_load_progress
    \/ call_save_progress
    \/ torn_save_progress

SpecStore == InitFileManager /\ [][NextStore]_vars

\* ------------------------------------------------------------------------
\* FileManager, one call at a time: the record writers
\* ------------------------------------------------------------------------

\* record lists handed to save_contacts_to_files and save_chats_to_files
RecordLists == {<<>>, <<ItemRecord(1)>>, <<ItemRecord(2), ItemRecord(3)>>}

\* member lists handed to save_chat_members_to_files: none, or the members
\* of one chat
MemberLists == {<<>>} \cup {get_chat_members_for_chat(c, "ok") : c \in 1..2}

\* save_contacts_to_files / save_chats_to_files: ValueError without a
\* session, else both files of the current session rewritten and len returned
save_list_to_files(cs, disk, k, records) ==
    IF cs = NoSession THEN [raised |-> TRUE, ret |-> 0, disk |-> disk]
    ELSE [raised |-> FALSE,
          ret |-> Len(records),
          disk |-> [disk EXCEPT ![cs] =
                       IF k = "contacts" THEN save_contacts_to_files(@, records)
                       ELSE save_chats_to_files(@, records)]]

call_save_list_to_files(k) ==
    /\ Len(calls) < MaxCalls
    /\ \E records \in RecordLists :
        LET r == save_list_to_files(current_session, session_files, k, records)
        IN /\ session_files' = r.disk
           /\ calls' = Append(calls,
                  [op |-> IF k = "contacts" THEN "save_contacts_to_files"
                          ELSE "save_chats_to_files",
                   session |-> current_session, raised |-> r.raised, ret |-> r.ret,
                   records |-> records])
    /\ UNCHANGED <<current_session, session_progress>>
    /\ UNCHANGED run_vars
    /\ UNCHANGED ext_vars

call_save_contacts_to_files == call_save_list_to_files("contacts")

call_save_chats_to_files == call_save_list_to_files("chats")

\* the session is asked for before the list is looked at
save_chat_members_session_first(cs, disk, members, append) ==
    IF cs = NoSession THEN [raised |-> TRUE, ret |-> 0, disk |-> disk]
    ELSE [raised |-> FALSE,
          ret |-> Len(members),
          disk |-> [disk EXCEPT ![cs] = save_chat_members_to_files(@, members, append)]]

\* save_chat_members_to_files as called: 0 for an empty list before
\* anything else, ValueError without a session, else the write
save_chat_members(cs, disk, members, append) ==
    IF members = <<>> THEN [raised |-> FALSE, ret |-> 0, disk |-> disk]
    ELSE IF cs = NoSession THEN [raised |-> TRUE, ret |-> 0, disk |-> disk]
    ELSE [raised |-> FALSE,
          ret |-> Len(members),
          disk |-> [disk EXCEPT ![cs] = save_chat_members_to_files(@, members, append)]]

call_save_chat_members_to_files ==
    /\ Len(calls) < MaxCalls
    /\ \E members \in MemberLists, append \in BOOLEAN :
        LET r == save_chat_members(current_session, session_files, members, append)
        IN /\ session_files' = r.disk
           /\ calls' = Append(calls,
                  [op |-> "save_chat_members_to_files", session |-> current_session,
                   raised |-> r.raised, ret |-> r.ret,
                   members |-> members, append |-> append])
    /\ UNCHANGED <<current_session, session_progress>>
    /\ UNCHANGED run_vars
    /\ UNCHANGED ext_vars

\* a fresh export_chat_members removes both chat-member files of the
\* current session
remove_chat_member_files ==
    /\ Len(calls) < MaxCalls
    /\ current_session # NoSession
    /\ session_files' =
          [session_files EXCEPT ![current_session] = clear_chat_member_files(@)]
    /\ calls' = Append(calls, [op |-> "remove", session |-> current_session,
                               raised |-> FALSE])
    /\ UNCHANGED <<current_session, session_progress>>
    /\ UNCHANGED run_vars
    /\ UNCHANGED ext_vars

NextWriter ==
    \/ FileManager_init
    \/ set_session
    \/ call_save_contacts_to_files
    \/ call_save_chats_to_files
    \/ call_save_chat_members_to_files
    \/ remove_chat_member_files

SpecWriter == InitFileManager /\ [][NextWriter]_vars

\* ------------------------------------------------------------------------
\* FileManager: the nickname cross-reference
\* ------------------------------------------------------------------------

\* text is a sequence of characters, so that lower() and strip() do what
\* they do; the empty string is the empty sequence
alice == <<"a", "l", "i", "c", "e">>
Alice == <<"A", "l", "i", "c", "e">>
alice2 == alice \o <<"2">>
bob == <<"b", "o", "b">>
Bob == <<"B", "o", "b">>

\* str.lower on one character
lower_char(c) == IF c = "A" THEN "a" ELSE IF c = "B" THEN "b" ELSE c

\* str.lower
lower(str) == [j \in 1..Len(str) |-> lower_char(str[j])]

RECURSIVE lstrip(_)
lstrip(str) == IF str # <<>> /\ Head(str) = " " THEN lstrip(Tail(str)) ELSE str

\* str.strip
strip(str) == Reverse(lstrip(Reverse(lstrip(str))))

\* load_nicknames_list: the stripped, lower-cased non-blank lines as a set,
\* the empty set without the file
load_nicknames_list(nf) ==
    IF ~nf.exists THEN {}
    ELSE {lower(strip(nf.lines[j])) :
            j \in {i \in 1..Len(nf.lines) : strip(nf.lines[i]) # <<>>}}

\* dict.get(key, default)
get(rec, key, default) == IF key \in DOMAIN rec THEN rec[key] ELSE default

\* dict.update
update(rec, new) ==
    [k \in DOMAIN rec \cup DOMAIN new |-> IF k \in DOMAIN new THEN new[k] ELSE rec[k]]

\* the username is looked up as it is written
is_match_case_sensitive(username, nicknames_set) ==
    username # <<>> /\ username \in nicknames_set

\* username and username.lower() in nicknames_set
is_match(username, nicknames_set) == username # <<>> /\ lower(username) \in nicknames_set

\* the match record _check_contacts builds
contact_info(contact) ==
    [source        |-> "contacts",
     found_in_chat |-> <<"Kontakty">>,
     chat_id       |-> "",
     id            |-> get(contact, "id", ""),
     first_name    |-> get(contact, "first_name", <<>>),
     last_name     |-> get(contact, "last_name", <<>>),
     username      |-> contact.username,
     phone         |-> get(contact, "phone", <<>>),
     is_bot        |-> get(contact, "is_bot", FALSE),
     matched_nick  |-> lower(contact.username)]

\* the match record _check_chats builds
dialog_info(dialog) ==
    [source            |-> "chats",
     found_in_chat     |-> <<"Lichnye soobshcheniya">>,
     chat_id           |-> get(dialog, "id", ""),
     id                |-> get(dialog, "id", ""),
     first_name        |-> get(dialog, "first_name", <<>>),
     last_name         |-> get(dialog, "last_name", <<>>),
     username          |-> dialog.username,
     phone             |-> get(dialog, "phone", <<>>),
     is_contact        |-> get(dialog, "is_contact", FALSE),
     last_message_date |-> get(dialog, "last_message_date", ""),
     unread_count      |-> get(dialog, "unread_count", 0),
     matched_nick      |-> lower(dialog.username)]

\* the match record _check_chat_members builds
member_info(member) ==
    [source        |-> "chat_members",
     found_in_chat |-> <<get(member, "chat_title", ""), " (", get(member, "chat_type", ""), ")">>,
     chat_id       |-> get(member, "chat_id", ""),
     id            |-> get(member, "user_id", ""),
     first_name    |-> get(member, "first_name", <<>>),
     last_name     |-> get(member, "last_name", <<>>),
     username      |-> member.username,
     phone         |-> get(member, "phone", <<>>),
     is_bot        |-> get(member, "is_bot", FALSE),
     is_premium    |-> get(member, "is_premium", FALSE),
     is_verified   |-> get(member, "is_verified", FALSE),
     matched_nick  |-> lower(member.username)]

\* one _check_* method: nothing without a session (the ValueError is
\* caught) or without the file, else the match records of the records
\* whose username matches, in file order
check_dataset(cs, disk, file, source, nicknames_set) ==
    IF cs = NoSession THEN <<>>
    ELSE IF ~disk[cs][file].exists THEN <<>>
    ELSE LET Hit(rec) == is_match(get(rec, "username", <<>>), nicknames_set)
             hits == SelectSeq(disk[cs][file].content, Hit)
         IN [j \in 1..Len(hits) |->
                IF source = "contacts" THEN contact_info(hits[j])
                ELSE IF source = "chats" THEN dialog_info(hits[j])
                ELSE member_info(hits[j])]

matches_fieldnames ==
    <<"source", "found_in_chat", "chat_id", "id", "first_name", "last_name",
      "username", "phone", "is_bot", "is_contact", "is_premium", "is_verified",
      "last_message_date", "unread_count", "matched_nick">>

\* no field is added
fill_missing_nothing(contact) == contact

\* _save_matches: the fields added to a match record, by source
fill_missing(contact) ==
    IF contact.source = "contacts"
    THEN update(contact, [last_message_date |-> "", unread_count |-> 0,
                          is_premium |-> FALSE, is_verified |-> FALSE,
                          is_contact |-> TRUE])
    ELSE IF contact.source = "chats"
    THEN update(contact, [is_premium |-> FALSE, is_verified |-> FALSE])
    ELSE update(contact, [is_contact |-> FALSE, last_message_date |-> "",
                          unread_count |-> 0])

\* _save_matches: both match files rewritten with the filled records
save_matches(matched_contacts) ==
    LET filled == [j \in 1..Len(matched_contacts) |-> fill_missing(matched_contacts[j])]
    IN [matches_csv  |-> File(<<matches_fieldnames>> \o csv_rows(filled, matches_fieldnames)),
        matches_json |-> File(filled)]

\* the chats are scanned before the contacts
matched_contacts_chats_first(cs, disk, nicknames_set) ==
    check_dataset(cs, disk, "dialogs_json", "chats", nicknames_set)
    \o check_dataset(cs, disk, "contacts_json", "contacts", nicknames_set)
    \o check_dataset(cs, disk, "members_json", "chat_members", nicknames_set)

\* matched_contacts of cross_reference_nicknames: contacts, then chats,
\* then chat members
matched_contacts(cs, disk, nicknames_set) ==
    check_dataset(cs, disk, "contacts_json", "contacts", nicknames_set)
    \o check_dataset(cs, disk, "dialogs_json", "chats", nicknames_set)
    \o check_dataset(cs, disk, "members_json", "chat_members", nicknames_set)

\* the export files the cross-reference can find: written by exports
contact_record(n, username, is_bot) ==
    [id |-> n, first_name |-> <<"N">>, last_name |-> <<>>, username |-> username,
     phone |-> <<"7">>, is_bot |-> is_bot, is_contact |-> TRUE]

chat_record(n, username, is_contact, date, unread) ==
    [id |-> n, first_name |-> <<"N">>, last_name |-> <<>>, username |-> username,
     phone |-> <<>>, is_contact |-> is_contact, last_message_date |-> date,
     unread_count |-> unread]

member_record(chat_id, n, username, is_premium, is_verified) ==
    [chat_id |-> chat_id, chat_title |-> "T", chat_type |-> "group", user_id |-> n,
     first_name |-> <<"N">>, last_name |-> <<>>, username |-> username,
     phone |-> <<>>, is_bot |-> FALSE, is_premium |-> is_premium,
     is_verified |-> is_verified]

\* an export that was never made, and one that wrote the list
Absent == [present |-> FALSE, list |-> <<>>]
Written(list) == [present |-> TRUE, list |-> list]

ContactExports ==
    {Absent,
     Written(<<>>),
     Written(<<contact_record(1, Alice, FALSE), contact_record(2, <<>>, FALSE),
               contact_record(3, alice2, TRUE)>>),
     Written(<<contact_record(4, bob, TRUE), contact_record(1, alice, FALSE)>>)}

ChatExports ==
    {Absent,
     Written(<<chat_record(1, Alice, TRUE, "2024-05-01", 3),
               chat_record(5, Bob, FALSE, "", 0)>>),
     Written(<<chat_record(6, <<>>, FALSE, "", 1)>>)}

MemberExports ==
    {Absent,
     Written(<<member_record(1, 1, Alice, TRUE, FALSE),
               member_record(1, 7, bob, FALSE, FALSE)>>),
     Written(<<member_record(2, 3, alice2, FALSE, FALSE),
               member_record(2, 1, alice, FALSE, TRUE)>>)}

NicknameFiles ==
    {[exists |-> FALSE, lines |-> <<>>],
     [exists |-> TRUE, lines |-> <<>>],
     [exists |-> TRUE, lines |-> <<alice>>],
     [exists |-> TRUE, lines |-> <<<<" ">> \o Bob, <<" ">>, alice \o <<" ">>>>],
     [exists |-> TRUE, lines |-> <<alice2>>]}

\* the files of a session after exports that wrote the given lists
exported(cl, dl, ml) ==
    LET f0 == [f \in FileNames |-> NoFile]
        f1 == IF cl.present THEN save_contacts_to_files(f0, cl.list) ELSE f0
        f2 == IF dl.present THEN save_chats_to_files(f1, dl.list) ELSE f1
    IN IF ml.present THEN save_chat_members_to_files(f2, ml.list, FALSE) ELSE f2

\* exports have been made for session s1; the FileManager has that session
\* or, when nothing has connected yet, none
InitMatch ==
    /\ InitRun
    /\ session_progress = [s \in Sessions |-> NoText]
    /\ calls = <<>>
    /\ current_session \in {"s1", NoSession}
    /\ \E cl \in ContactExports, dl \in ChatExports, ml \in MemberExports :
          session_files = [s \in Sessions |->
                             IF s = "s1" THEN exported(cl, dl, ml)
                             ELSE [f \in FileNames |-> NoFile]]
    /\ nicknames_file \in NicknameFiles
    /\ match_files = [f \in {"matches_csv", "matches_json"} |-> NoFile]
    /\ match_ret = [called |-> FALSE, ret |-> 0, n |-> 0]
    /\ InitSessionIdle
    /\ InitRest

\* cross_reference_nicknames calls one behaviour makes
MaxMatchCalls == 2

\* cross_reference_nicknames: 0 without nicknames; else the three scans,
\* the match files written when there is a match, and the count returned
cross_reference(cs, disk, nf, mf) ==
    LET nicknames_set == load_nicknames_list(nf)
        found == matched_contacts(cs, disk, nicknames_set)
    IN IF nicknames_set = {}
       THEN [ret |-> 0, files |-> mf]
       ELSE [ret |-> Len(found),
             files |-> IF found # <<>> THEN save_matches(found) ELSE mf]

\* menu choice 6 under the FileManager's session
cross_reference_nicknames ==
    /\ ~match_ret.called
    /\ LET r == cross_reference(current_session, session_files, nicknames_file, match_files)
       IN /\ match_ret' = [called |-> TRUE, ret |-> r.ret, n |-> match_ret.n + 1]
          /\ match_files' = r.files
    /\ UNCHANGED nicknames_file
    /\ UNCHANGED sm_vars
    /\ UNCHANGED rest_vars
    /\ UNCHANGED fm_vars
    /\ UNCHANGED run_vars

\* the user writes another nicknames.txt before the next cross-reference
write_nicknames ==
    /\ match_ret.called
    /\ match_ret.n < MaxMatchCalls
    /\ nicknames_file' \in NicknameFiles \ {nicknames_file}
    /\ match_ret' = [match_ret EXCEPT !.called = FALSE]
    /\ UNCHANGED match_files
    /\ UNCHANGED sm_vars
    /\ UNCHANGED rest_vars
    /\ UNCHANGED fm_vars
    /\ UNCHANGED run_vars

NextMatch ==
    \/ cross_reference_nicknames
    \/ write_nicknames

SpecMatch == InitMatch /\ [][NextMatch]_vars

\* ------------------------------------------------------------------------
\* SessionManager.create_session_name
\* ------------------------------------------------------------------------

MaxPhoneLen == 3

Digits == {"0", "1", "2", "3", "4", "5", "6", "7", "8", "9"}

Letters ==
    {"a", "b", "c", "d", "e", "f", "g", "h", "i", "j", "k", "l", "m",
     "n", "o", "p", "q", "r", "s", "t", "u", "v", "w", "x", "y", "z",
     "A", "B", "C", "D", "E", "F", "G", "H", "I", "J", "K", "L", "M",
     "N", "O", "P", "Q", "R", "S", "T", "U", "V", "W", "X", "Y", "Z"}

\* str.isalnum on one character
isalnum(c) == c \in Digits \cup Letters

\* "session_"
session_prefix == <<"s", "e", "s", "s", "i", "o", "n", "_">>

\* create_session_name with only the plus sign removed
create_session_name_plus_only(ph) ==
    LET not_plus(c) == c # "+"
    IN session_prefix \o SelectSeq(ph, not_plus)

\* create_session_name: "session_" and the characters of phone that are
\* alphanumeric, joined in order
create_session_name(ph) == session_prefix \o SelectSeq(ph, isalnum)

\* "+7 (999) 123-45-67"
phone_formatted ==
    <<"+", "7", " ", "(", "9", "9", "9", ")", " ", "1", "2", "3", "-",
      "4", "5", "-", "6", "7">>

\* "+79991234567"
phone_plain == <<"+", "7", "9", "9", "9", "1", "2", "3", "4", "5", "6", "7">>

\* characters the short phones are made of
PhoneChars == {"+", "7", "9", " ", "-", "a"}

\* phones create_session_name is called with
Phones ==
    UNION {[1..n -> PhoneChars] : n \in 0..MaxPhoneLen}
      \cup {phone_formatted, phone_plain}

InitName ==
    /\ InitRun
    /\ InitDisk
    /\ InitMatchIdle
    /\ current_session = NoSession
    /\ phone \in Phones
    /\ session_name = <<>>
    /\ session_info = [s \in Sessions |-> NoText]
    /\ session_blob = {}
    /\ menu_session = NoSession
    /\ client = NoSession
    /\ clock = 0
    /\ app = "stopped"
    /\ sm_ret = NoHandler
    /\ InitRest

\* one call of create_session_name(phone)
call_create_session_name ==
    /\ session_name = <<>>
    /\ session_name' = create_session_name(phone)
    /\ UNCHANGED <<phone, session_info, session_blob, menu_session, client,
                   clock, app, sm_ret>>
    /\ UNCHANGED rest_vars
    /\ UNCHANGED match_vars
    /\ UNCHANGED fm_vars
    /\ UNCHANGED run_vars

NextName == call_create_session_name

SpecName == InitName /\ [][NextName]_vars

\* ------------------------------------------------------------------------
\* The session registry (SessionManager) and the menu that drives it
\* ------------------------------------------------------------------------

MaxClock == 7

InfoKeys == <<"api_id", "api_hash", "phone", "created", "last_used">>

\* json.dump of a session's metadata: the opening brace, one pair per key
\* the record has, the closing brace
info_dump(info) ==
    LET Present(k) == k \in DOMAIN info
        keys == SelectSeq(InfoKeys, Present)
    IN [exists |-> TRUE,
        pairs |-> [j \in 1..Len(keys) |-> <<keys[j], info[keys[j]]>>],
        closed |-> TRUE]

\* get_session_info: json.load of the info file, {} when the file is
\* missing or does not parse
get_session_info(disk, name) ==
    IF disk[name].exists /\ parses(disk[name]) THEN json_load(disk[name]) ELSE <<>>

\* save_session_info that leaves the phone out of the record
save_session_info_without_phone(disk, name, api_id, api_hash, ph, t) ==
    [disk EXCEPT ![name] =
        info_dump([api_id |-> api_id, api_hash |-> api_hash,
                   created |-> t, last_used |-> t + 1])]

\* save_session_info: the five fields written over whatever the file held;
\* created and last_used are two readings of the clock
save_session_info(disk, name, api_id, api_hash, ph, t) ==
    [disk EXCEPT ![name] =
        info_dump([api_id |-> api_id, api_hash |-> api_hash, phone |-> ph,
                   created |-> t, last_used |-> t + 1])]

\* update_last_used that writes a record holding the timestamp alone
update_last_used_alone(disk, name, t) ==
    [disk EXCEPT ![name] = info_dump([last_used |-> t])]

\* update_last_used: the record get_session_info returns, with last_used
\* set to the clock's reading, written back
update_last_used(disk, name, t) ==
    LET info == get_session_info(disk, name)
        updated == [k \in DOMAIN info \cup {"last_used"} |->
                       IF k = "last_used" THEN t ELSE info[k]]
    IN [disk EXCEPT ![name] = info_dump(updated)]

\* session_exists: the .session file is there
session_exists(blob, name) == name \in blob

NoCredentials == [found |-> FALSE, api_id |-> "", api_hash |-> "", phone |-> <<>>]

\* get_session_credentials: the three values when the record is not empty
\* and has all three keys, else None
get_session_credentials(disk, name) ==
    LET info == get_session_info(disk, name)
    IN IF DOMAIN info # {} /\ {"api_id", "api_hash", "phone"} \subseteq DOMAIN info
       THEN [found |-> TRUE, api_id |-> info["api_id"],
             api_hash |-> info["api_hash"], phone |-> info["phone"]]
       ELSE NoCredentials

\* get_current_session_credentials
get_current_session_credentials(disk, menu) ==
    IF menu # NoSession THEN get_session_credentials(disk, menu) ELSE NoCredentials

\* the sort key list_sessions orders by: the last_used text, "Never"
\* without one
last_used_key(disk, name) ==
    LET info == get_session_info(disk, name)
    IN IF "last_used" \in DOMAIN info
       THEN [never |-> FALSE, t |-> info["last_used"]]
       ELSE [never |-> TRUE, t |-> 0]

\* string order of two sort keys: "Never" is above every ISO timestamp,
\* timestamps are in time order
key_geq(a, b) == a.never \/ (~b.never /\ a.t >= b.t)

\* the sessions list_sessions may return first: those with a .session file
\* whose key no other listed session exceeds
list_sessions_first(disk, blob) ==
    {s \in blob : \A r \in blob : key_geq(last_used_key(disk, s), last_used_key(disk, r))}

\* the phones of the two accounts in play and a second spelling of the first
PhoneInputs == {<<"+", "7">>, <<" ", "7">>, <<"+", "9">>}

\* the API ID and API Hash the user types; the first leaves a field empty
ApiInputs ==
    {[api_id |-> "", api_hash |-> "a"],
     [api_id |-> "1", api_hash |-> "a"],
     [api_id |-> "2", api_hash |-> "b"]}

\* the names the two session directories go by
SessionNames ==
    [s \in Sessions |->
        IF s = "s1" THEN create_session_name(<<"+", "7">>)
        ELSE create_session_name(<<"+", "9">>)]

\* the session a session name stands for
session_of(name) == CHOOSE s \in Sessions : SessionNames[s] = name

\* how TelegramClientWrapper.create_client ends: the client has started;
\* start() has raised, with or without the .session file made
ClientOutcomes == {"started", "raised", "raised_with_file"}

\* ensure_connection: refuses without a selected session; sets the
\* FileManager's session; refuses without credentials; creates the client
\* when there is none and then stamps the session
ensure_connection(menu, disk, blob, cl, t, outcome) ==
    LET same == [ok |-> FALSE, raised |-> FALSE, set |-> FALSE, disk |-> disk,
                 blob |-> blob, client |-> cl, clock |-> t]
    IN IF menu = NoSession THEN same
       ELSE IF ~get_current_session_credentials(disk, menu).found
            THEN [same EXCEPT !.set = TRUE]
       ELSE IF cl # NoSession
            THEN [same EXCEPT !.set = TRUE, !.ok = TRUE]
       ELSE IF outcome = "started"
            THEN [ok |-> TRUE, raised |-> FALSE, set |-> TRUE,
                  disk |-> update_last_used(disk, menu, t),
                  blob |-> blob \cup {menu}, client |-> menu, clock |-> t + 1]
       ELSE [same EXCEPT !.set = TRUE, !.raised = TRUE,
                         !.blob = IF outcome = "raised_with_file"
                                  THEN blob \cup {menu} ELSE blob]

\* the process is gone: nothing of its memory is left
Stopped ==
    /\ app' = "stopped"
    /\ menu_session' = NoSession
    /\ client' = NoSession
    /\ current_session' = NoSession

\* what the session handlers leave alone
SessionFrame ==
    /\ UNCHANGED <<phone, session_name>>
    /\ UNCHANGED rest_vars
    /\ UNCHANGED <<session_progress, session_files, calls>>
    /\ UNCHANGED match_vars
    /\ UNCHANGED run_vars

\* the rest of a handler that ends in ensure_connection, entered with the
\* menu's session, the registry and the clock as the handler left them
Connect(op, menu, disk, blob, t, args, export) ==
    \E outcome \in ClientOutcomes :
        LET r == ensure_connection(menu, disk, blob, client, t, outcome)
        IN /\ session_info' = r.disk
           /\ session_blob' = r.blob
           /\ clock' = r.clock
           /\ IF r.raised
              THEN Stopped
              ELSE /\ app' = "running"
                   /\ menu_session' = menu
                   /\ client' = r.client
                   /\ current_session' = IF r.set THEN menu ELSE current_session
           /\ sm_ret' = [op |-> op, name |-> menu, api_id |-> args.api_id,
                         api_hash |-> args.api_hash, phone |-> args.phone,
                         connected |-> r.ok, exported |-> export /\ r.ok]

NoArgs == [api_id |-> "", api_hash |-> "", phone |-> <<>>]

InitSession == InitRun /\ InitDisk /\ InitExt /\ current_session = NoSession

\* TelegramExporter(): a FileManager without a session, no client, and the
\* most recently used session selected when there is one
start ==
    /\ app = "stopped"
    /\ app' = "running"
    /\ client' = NoSession
    /\ current_session' = NoSession
    /\ IF session_blob = {}
       THEN menu_session' = NoSession
       ELSE menu_session' \in list_sessions_first(session_info, session_blob)
    /\ sm_ret' = [NoHandler EXCEPT !.op = "start", !.name = menu_session']
    /\ UNCHANGED <<session_info, session_blob, clock>>
    /\ SessionFrame

\* main menu, choice 0
quit ==
    /\ app = "running"
    /\ Stopped
    /\ sm_ret' = [NoHandler EXCEPT !.op = "quit"]
    /\ UNCHANGED <<session_info, session_blob, clock>>
    /\ SessionFrame

\* session menu, choice n: create_new_session, and when it made a session,
\* that session selected and ensure_connection
create_new_session ==
    /\ app = "running"
    /\ clock + 3 <= MaxClock
    /\ \E api \in ApiInputs, raw \in PhoneInputs, overwrite \in BOOLEAN :
        LET ph == strip(raw)
            name == session_of(create_session_name(ph))
            args == [api_id |-> api.api_id, api_hash |-> api.api_hash, phone |-> ph]
            had == session_exists(session_blob, name)
            disk0 == IF had THEN [session_info EXCEPT ![name] = NoText] ELSE session_info
            blob0 == session_blob \ {name}
        IN IF api.api_id = "" \/ api.api_hash = "" \/ ph = <<>> \/ (had /\ ~overwrite)
           THEN /\ sm_ret' = [op |-> "create", name |-> NoSession, api_id |-> args.api_id,
                              api_hash |-> args.api_hash, phone |-> args.phone,
                              connected |-> FALSE, exported |-> FALSE]
                /\ UNCHANGED <<session_info, session_blob, menu_session, client,
                               clock, app, current_session>>
           ELSE Connect("create", name,
                        save_session_info(disk0, name, api.api_id, api.api_hash, ph, clock),
                        blob0, clock + 2, args, FALSE)
    /\ SessionFrame

\* session menu, a number: that listed session selected and stamped, then
\* ensure_connection
select_session ==
    /\ app = "running"
    /\ clock + 2 <= MaxClock
    /\ \E s \in session_blob :
        Connect("select", s, update_last_used(session_info, s, clock),
                session_blob, clock + 1, NoArgs, FALSE)
    /\ SessionFrame

\* the process is killed while update_last_used of a selection writes: the
\* file is left without its closing brace, with none or all of its pairs
killed_in_update_last_used ==
    /\ app = "running"
    /\ clock + 1 <= MaxClock
    /\ \E s \in session_blob :
        LET text == update_last_used(session_info, s, clock)[s]
        IN \E n \in {0, Len(text.pairs)} :
            session_info' = [session_info EXCEPT ![s] = torn(text, n)]
    /\ clock' = clock + 1
    /\ Stopped
    /\ sm_ret' = [NoHandler EXCEPT !.op = "killed"]
    /\ UNCHANGED session_blob
    /\ SessionFrame

\* session menu, choice d, confirmed: delete_session of a listed session;
\* the menu's session cleared when it was that one
delete_session_interactive ==
    /\ app = "running"
    /\ \E s \in session_blob :
        /\ session_info' = [session_info EXCEPT ![s] = NoText]
        /\ session_blob' = session_blob \ {s}
        /\ menu_session' = IF menu_session = s THEN NoSession ELSE menu_session
        /\ sm_ret' = [NoHandler EXCEPT !.op = "delete", !.name = s]
    /\ UNCHANGED <<client, clock, app, current_session>>
    /\ SessionFrame

\* session menu, choice 0: back to the main menu, with ensure_connection
\* when a session is selected
session_menu_back ==
    /\ app = "running"
    /\ clock + 1 <= MaxClock
    /\ Connect("back", menu_session, session_info, session_blob, clock, NoArgs, FALSE)
    /\ SessionFrame

\* main menu, choices 2 to 5: ensure_connection, and the export only when
\* it returned True
menu_export ==
    /\ app = "running"
    /\ clock + 1 <= MaxClock
    /\ Connect("export", menu_session, session_info, session_blob, clock, NoArgs, TRUE)
    /\ SessionFrame

\* main menu, choice 6: the cross-reference, with no ensure_connection
\* before it
menu_cross_reference ==
    /\ app = "running"
    /\ cross_reference_nicknames

NextSession ==
    \/ start
    \/ quit
    \/ create_new_session
    \/ select_session
    \/ killed_in_update_last_used
    \/ delete_session_interactive
    \/ session_menu_back
    \/ menu_export
    \/ menu_cross_reference

SpecSession == InitSession /\ [][NextSession]_vars

\* ------------------------------------------------------------------------
\* Two processes that save progress for the same session
\* ------------------------------------------------------------------------

\* save_progress calls one process makes
MaxSaves == 2

\* the session both processes have set
shared_session == "s1"

\* the export each process runs
proc_kind(p) == IF p = 1 THEN "contacts" ELSE "chats"

\* data the exports hand to save_progress: a checkpoint and the final save
RaceData ==
    {[completed |-> 1, total |-> 2, finished |-> FALSE],
     [completed |-> 2, total |-> 2, finished |-> TRUE]}

\* what open(progress_file, "w") leaves until the dump is flushed
truncated == [exists |-> TRUE, pairs |-> <<>>, closed |-> FALSE]

\* both processes have the session set; nothing is on disk
InitRace ==
    /\ InitRun
    /\ InitDisk
    /\ InitExt
    /\ current_session = shared_session

\* what the save_progress steps leave alone
RaceFrame ==
    /\ UNCHANGED <<current_session, session_files, calls>>
    /\ UNCHANGED legacy_vars
    /\ UNCHANGED menu_ask
    /\ UNCHANGED run_vars
    /\ UNCHANGED match_vars
    /\ UNCHANGED sm_vars

\* save_progress, first part: load_progress reads the whole document; its
\* JSONDecodeError ends the call
proc_load(p) ==
    /\ proc_pc[p] = "idle"
    /\ proc_saved[p].n < MaxSaves
    /\ \E data \in RaceData :
          proc_call' = [proc_call EXCEPT ![p] =
                           [export_type |-> proc_kind(p), data |-> data]]
    /\ LET r == load_progress(shared_session, session_progress)
       IN IF r.raised
          THEN /\ proc_pc' = [proc_pc EXCEPT ![p] = "raised"]
               /\ UNCHANGED proc_doc
          ELSE /\ proc_pc' = [proc_pc EXCEPT ![p] = "loaded"]
               /\ proc_doc' = [proc_doc EXCEPT ![p] = r.doc]
    /\ proc_overlap' = (proc_overlap \/ \E q \in Procs \ {p} : proc_pc[q] \in {"loaded", "opened"})
    /\ UNCHANGED <<session_progress, proc_saved>>
    /\ RaceFrame

\* save_progress, second part: the entry is set in the loaded document and
\* the file is opened for writing, which empties it
proc_open(p) ==
    /\ proc_pc[p] = "loaded"
    /\ proc_pc' = [proc_pc EXCEPT ![p] = "opened"]
    /\ session_progress' = [session_progress EXCEPT ![shared_session] = truncated]
    /\ UNCHANGED <<proc_call, proc_doc, proc_saved, proc_overlap>>
    /\ RaceFrame

\* save_progress, last part: json.dump of the loaded document with the new
\* entry, from the start of the file. When the other process has written
\* since this one opened the file, what is left of its longer text after
\* this one's may make the file unparsable.
proc_dump(p) ==
    /\ proc_pc[p] = "opened"
    /\ LET doc == save_progress(proc_doc[p], proc_call[p].export_type, proc_call[p].data)
           text == json_dump(doc)
       IN /\ \/ session_progress' = [session_progress EXCEPT ![shared_session] = text]
             \/ /\ session_progress[shared_session].closed
                /\ session_progress' =
                      [session_progress EXCEPT
                          ![shared_session] = torn(text, Len(text.pairs))]
          /\ proc_saved' = [proc_saved EXCEPT ![p] =
                               [n |-> @.n + 1,
                                entry |-> <<doc[proc_call[p].export_type]>>]]
    /\ proc_pc' = [proc_pc EXCEPT ![p] = "idle"]
    /\ UNCHANGED <<proc_call, proc_doc, proc_overlap>>
    /\ RaceFrame

NextRace ==
    \E p \in Procs :
        \/ proc_load(p)
        \/ proc_open(p)
        \/ proc_dump(p)

SpecRace == InitRace /\ [][NextRace]_vars

\* ------------------------------------------------------------------------
\* export.py, the single-file exporter: export_chat_members
\* ------------------------------------------------------------------------

MaxLegacyRuns == 2

MaxLegacyChats == 11

\* progress is saved every 5 chats
LegacyCheckpointEvery == 5

\* numbers of groups and channels get_dialogs returns: none, one checkpoint
\* interval and a bit, two intervals and a bit
LegacyTotals == {0, 6, MaxLegacyChats}

\* what handling one dialog does: members are gathered; the participants
\* request is refused, which is caught inside; anything else is raised to
\* the outer handler
LegacyOutcomes == {"ok", "access_error", "raise"}

\* the dialogs whose handling can fail: the ones around the saves
LegacyTroubled ==
    {LegacyCheckpointEvery, LegacyCheckpointEvery + 1, 2 * LegacyCheckpointEvery}

\* "completed" of the intermediate save: processed_chats, the count of this
\* run, whatever offset the run started from
legacy_checkpoint(offset, count) == count

\* export.py save_progress: the entry is set in self.progress and the whole
\* of it written to the progress file
legacy_save_progress(doc, export_type, data) ==
    [k \in DOMAIN doc \cup {export_type} |->
        IF k = export_type
        THEN [completed |-> data.completed, total |-> data.total,
              finished |-> data.finished]
        ELSE doc[k]]

\* the member records gathered for a chat
legacy_members(chat_id) ==
    [u \in participants(chat_id) |-> [chat_id |-> chat_id, user_id |-> u]]

\* what the steps of export.py leave alone
LegacyFrame ==
    /\ UNCHANGED run_vars
    /\ UNCHANGED fm_vars
    /\ UNCHANGED match_vars
    /\ UNCHANGED sm_vars
    /\ UNCHANGED race_vars
    /\ UNCHANGED menu_ask

\* get_dialogs, the resume offset from the persisted entry, empty locals
legacy_start ==
    /\ legacy_pc = "idle"
    /\ legacy_run.n < MaxLegacyRuns
    /\ \E r \in BOOLEAN, total \in LegacyTotals :
        /\ legacy_run' = [n |-> legacy_run.n + 1, resume |-> r, total_chats |-> total]
        /\ legacy_completed_chats' =
              IF r /\ "chat_members" \in DOMAIN legacy_progress
              THEN legacy_progress["chat_members"].completed ELSE 0
    /\ legacy_all_members' = <<>>
    /\ legacy_processed_chats' = 0
    /\ legacy_pc' = "loop"
    /\ legacy_ret' = 0
    /\ UNCHANGED <<legacy_progress, legacy_files>>
    /\ LegacyFrame

\* one dialog of group_dialogs[completed_chats:]: its members gathered, the
\* count raised, and every fifth count saved unless the outer handler ran
legacy_chat ==
    /\ legacy_pc = "loop"
    /\ legacy_completed_chats + legacy_processed_chats < legacy_run.total_chats
    /\ \E outcome \in LegacyOutcomes :
        LET chat_id == legacy_completed_chats + legacy_processed_chats + 1
            n == legacy_processed_chats + 1
        IN /\ outcome # "ok" => chat_id \in LegacyTroubled
           /\ legacy_all_members' =
                 IF outcome = "ok"
                 THEN legacy_all_members \o legacy_members(chat_id)
                 ELSE legacy_all_members
           /\ legacy_processed_chats' = n
           /\ legacy_progress' =
                 IF outcome # "raise" /\ n % LegacyCheckpointEvery = 0
                 THEN legacy_save_progress(legacy_progress, "chat_members",
                          [completed |-> legacy_checkpoint(legacy_completed_chats, n),
                           total |-> legacy_run.total_chats, finished |-> FALSE])
                 ELSE legacy_progress
    /\ UNCHANGED <<legacy_files, legacy_pc, legacy_run, legacy_completed_chats,
                   legacy_ret>>
    /\ LegacyFrame

\* after the loop: both files rewritten when members were gathered, the
\* final save, the return of len(all_members)
legacy_finish ==
    /\ legacy_pc = "loop"
    /\ legacy_completed_chats + legacy_processed_chats >= legacy_run.total_chats
    /\ legacy_files' =
          IF legacy_all_members # <<>>
          THEN [legacy_files EXCEPT
                   !["members_csv"] =
                       File(<<members_fieldnames>>
                            \o csv_rows(legacy_all_members, members_fieldnames)),
                   !["members_json"] = File(legacy_all_members)]
          ELSE legacy_files
    /\ legacy_progress' =
          legacy_save_progress(legacy_progress, "chat_members",
              [completed |-> legacy_run.total_chats, total |-> legacy_run.total_chats,
               finished |-> TRUE])
    /\ legacy_ret' = Len(legacy_all_members)
    /\ legacy_pc' = "idle"
    /\ legacy_all_members' = <<>>
    /\ legacy_processed_chats' = 0
    /\ legacy_completed_chats' = 0
    /\ UNCHANGED legacy_run
    /\ LegacyFrame

\* the process ends between two dialogs; its locals are lost
legacy_interrupt ==
    /\ legacy_pc = "loop"
    /\ legacy_pc' = "idle"
    /\ legacy_all_members' = <<>>
    /\ legacy_processed_chats' = 0
    /\ legacy_completed_chats' = 0
    /\ UNCHANGED <<legacy_progress, legacy_files, legacy_run, legacy_ret>>
    /\ LegacyFrame

NextLegacy ==
    \/ legacy_start
    \/ legacy_chat
    \/ legacy_finish
    \/ legacy_interrupt

SpecLegacy == Init /\ [][NextLegacy]_vars

\* ------------------------------------------------------------------------
\* TelegramExporter.run: the export choices of the main menu
\* ------------------------------------------------------------------------

\* the exports a main-menu choice runs, in order
choice_kinds(c) ==
    CASE c = "2" -> <<"contacts">>
      [] c = "3" -> <<"chats">>
      [] c = "4" -> <<"chat_members">>
      [] c = "5" -> <<"contacts", "chats", "chat_members">>
      [] OTHER -> <<>>

ExportChoices == {"2", "3", "4", "5"}

\* the word run() hands to ask_resume for an export: the Russian genitive
\* that completes the question, here in Latin letters
resume_label(k) ==
    CASE k = "contacts" -> "kontaktov"
      [] k = "chats" -> "chatov"
      [] k = "chat_members" -> "uchastnikov chatov"

\* what the user may type at the question ("da" and "d" for the two Russian
\* answers)
Answers == {"y", "Y", "yes", "da", "d", "n", ""}

\* str.lower on the answers
answer_lower(a) == IF a = "Y" THEN "y" ELSE a

\* ask_resume: the question is put when the progress document has an entry
\* under export_type that is not finished; the answer is then compared with
\* the four affirmative ones. Otherwise False without a question.
ask_resume(export_type, doc, typed) ==
    IF export_type \in DOMAIN doc /\ ~doc[export_type].finished
    THEN [asked |-> TRUE, typed |-> typed,
          ret |-> answer_lower(typed) \in {"y", "yes", "da", "d"}]
    ELSE [asked |-> FALSE, typed |-> "", ret |-> FALSE]

\* exports of the last choice are still to be started by this process
MenuPending ==
    /\ runs - menu_ask.base < Len(choice_kinds(menu_ask.choice))
    /\ ~(status = "interrupted" /\ runs > menu_ask.base)

\* choices 2 to 5 up to the first export call, with the connection in place:
\* ask_resume once for each export of the choice, all before the first export
menu_choice ==
    /\ pc = "idle"
    /\ ~MenuPending
    /\ runs < MaxRuns
    /\ \E c \in ExportChoices, typed \in [ExportKinds -> Answers] :
        LET ks == {choice_kinds(c)[i] : i \in 1..Len(choice_kinds(c))}
            ask(k) == ask_resume(resume_label(k), progress, typed[k])
        IN menu_ask' =
              [choice |-> c, base |-> runs,
               asked |-> [k \in ExportKinds |-> k \in ks /\ ask(k).asked],
               typed |-> [k \in ExportKinds |-> IF k \in ks THEN ask(k).typed ELSE ""],
               resume |-> [k \in ExportKinds |-> k \in ks /\ ask(k).ret]]
    /\ UNCHANGED run_vars
    /\ UNCHANGED fm_vars
    /\ UNCHANGED match_vars
    /\ UNCHANGED sm_vars
    /\ UNCHANGED race_vars
    /\ UNCHANGED legacy_vars

\* the exports of the choice, one after the other, each started with the
\* resume flag ask_resume returned for it
menu_run_exports ==
    /\ pc = "idle" => MenuPending
    /\ \/ export_contacts
       \/ export_chats
       \/ export_chat_members
    /\ pc = "idle" =>
          /\ kind' = choice_kinds(menu_ask.choice)[runs - menu_ask.base + 1]
          /\ resume' = menu_ask.resume[kind']

NextMenu ==
    \/ menu_choice
    \/ menu_run_exports
    \/ Interrupt

SpecMenu == Init /\ [][NextMenu]_vars

\* ------------------------------------------------------------------------
\* Properties
\* ------------------------------------------------------------------------

\* a run of kind k has returned and nothing was started since
Returned(k) == pc = "idle" /\ status = "returned" /\ kind = k

\* a run of kind k has ended, by return or by interruption
Ended(k) == pc = "idle" /\ status \in {"returned", "interrupted"} /\ kind = k

\* processed_items of the chat_members entry the run found at its start
start_processed == IF start_entry = <<>> THEN <<>> ELSE start_entry[1].processed_items

attempted_chats == [j \in 1..Len(attempts) |-> attempts[j].chat]

Raised(a) == a.res = "raise"

\* members of the chats whose fetch succeeded, in the order of the fetches
RECURSIVE members_fetched(_)
members_fetched(atts) ==
    IF atts = <<>> THEN <<>>
    ELSE (IF Head(atts).res = "ok"
          THEN [u \in participants(Head(atts).chat) |->
                    [chat_id |-> Head(atts).chat, user_id |-> u]]
          ELSE <<>>) \o members_fetched(Tail(atts))

\* the tabular file that holds exactly recs under the given header
Tabular(recs, fieldnames) == File(<<fieldnames>> \o csv_rows(recs, fieldnames))

csv_of(k) == IF k = "contacts" THEN "contacts_csv" ELSE "chats_csv"
json_of(k) == IF k = "contacts" THEN "contacts_json" ELSE "dialogs_json"
fieldnames_of(k) == IF k = "contacts" THEN contacts_fieldnames ELSE chats_fieldnames

\* C1: in every persisted progress document, an entry of any kind with
\* finished = true has completed = total.
C1_FinishedImpliesComplete ==
    \A k \in DOMAIN progress :
        progress[k].finished => progress[k].completed = progress[k].total

\* C2: every persisted progress entry of any kind has completed <= total.
C2_CompletedAtMostTotal ==
    \A k \in DOMAIN progress : progress[k].completed <= progress[k].total

\* C3: every persisted chat_members entry has as many processed_items as its
\* completed count, whatever runs, interruptions and raised errors came before.
C3_ProcessedLenIsCompleted ==
    "chat_members" \in DOMAIN progress =>
        Len(progress["chat_members"].processed_items) = progress["chat_members"].completed

\* a resumed run in which a chat raised has returned, with several chats counted
C3_Witness ==
    /\ Returned("chat_members")
    /\ resume
    /\ start_entry # <<>>
    /\ \E j \in 1..Len(attempts) : Raised(attempts[j])
    /\ progress["chat_members"].completed >= 2

\* C4: a fresh chat_members run over N chats that returns, whichever chats
\* failed, leaves completed = N, finished = true, N processed_items, and in
\* both member files the members of exactly the chats whose fetch succeeded.
C4_FreshRunSurvivesErrors ==
    (Returned("chat_members") /\ ~resume /\ src # <<>>) =>
        LET e == progress["chat_members"]
            expected == members_fetched(attempts)
        IN /\ e.completed = Len(src)
           /\ e.finished
           /\ Len(e.processed_items) = Len(src)
           /\ attempted_chats = src
           /\ files["members_json"] =
                IF expected = <<>> THEN NoFile ELSE File(expected)
           /\ files["members_csv"] =
                IF expected = <<>> THEN NoFile ELSE Tabular(expected, members_fieldnames)

\* three chats, the second one fails, the other two deliver their members
C4_Witness ==
    /\ Returned("chat_members")
    /\ ~resume
    /\ Len(src) = 3
    /\ Len(attempts) = 3
    /\ attempts[1].res = "ok"
    /\ attempts[2].res \in {"raise", "access_error"}
    /\ attempts[3].res = "ok"
    /\ \A j \in 1..Len(files["members_json"].content) :
            files["members_json"].content[j].chat_id \in {src[1], src[3]}

\* C5: a chat whose processing raised is in the persisted processed_items a
\* later resume reads, whether the run returned or was interrupted after the
\* failure, so that no resumed run fetches it again.
C5_RaisedChatIsPersisted ==
    Ended("chat_members") =>
        \A j \in 1..Len(attempts) :
            Raised(attempts[j]) =>
                /\ "chat_members" \in DOMAIN progress
                /\ attempts[j].chat \in Range(progress["chat_members"].processed_items)

\* C6: at the loop head, before the next chat's member fetch, the persisted
\* chat_members entry counts and lists every chat this run has handled.
C6_ProgressPersistedPerChat ==
    (pc = "m_loop" /\ attempts # <<>>) =>
        /\ "chat_members" \in DOMAIN progress
        /\ progress["chat_members"].completed = completed_chats
        /\ \A j \in 1..Len(attempts) :
                attempts[j].chat \in Range(progress["chat_members"].processed_items)

\* C7: a resumed chat_members run never fetches a chat whose id is in the
\* persisted processed_items, fetches no chat twice, and when it returns it
\* has fetched exactly the other upstream chats, in upstream order.
C7_ResumeFetchesUnprocessedOnly ==
    (kind = "chat_members" /\ resume /\ status # "none") =>
        /\ \A j \in 1..Len(attempts) : attempts[j].chat \notin Range(start_processed)
        /\ Distinct(attempted_chats)
        /\ (Returned("chat_members") /\ src # <<>>) =>
                attempted_chats =
                    SelectSeq(src, LAMBDA c : c \notin Range(start_processed))

\* a resumed run over a reordered list has skipped some chats and fetched others
C7_Witness ==
    /\ Returned("chat_members")
    /\ resume
    /\ Len(src) = 3
    /\ src[1] > src[2]
    /\ src[2] \in Range(start_processed)
    /\ attempts # <<>>

\* C8: a contacts export asked to resume an entry that is already finished
\* performs no fetch from the contact source.
C8_FinishedResumeDoesNotFetch ==
    (kind = "contacts" /\ resume /\ status # "none"
        /\ start_entry # <<>> /\ start_entry[1].finished) => source_calls = 0

\* C9: a resumed contacts or chats export that found completed = k and
\* returns over the list L leaves both files holding exactly L[k+1..], in
\* order, and none of the first k items.
C9_ResumeWritesTailOnly ==
    \A k \in ListKinds :
        (Returned(k) /\ resume /\ start_entry # <<>>) =>
            LET done == start_entry[1].completed
                tail == SubSeq(src, done + 1, Len(src))
            IN /\ files[json_of(k)] = File(tail)
               /\ files[csv_of(k)] = Tabular(tail, fieldnames_of(k))
               /\ \A j \in 1..Len(src) :
                    j <= done => src[j] \notin Range(files[json_of(k)].content)

\* a resume in the middle of the list has returned
C9_Witness ==
    /\ Returned("contacts")
    /\ resume
    /\ start_entry # <<>>
    /\ start_entry[1].completed > 0
    /\ start_entry[1].completed < Len(src)
    /\ ~start_entry[1].finished

\* C10: a fresh contacts or chats export that returns over the list L has
\* written exactly L, in order, to both files, returned Len(L) and persisted
\* completed = total = Len(L), finished = true.
C10_FreshListExport ==
    \A k \in ListKinds :
        (Returned(k) /\ ~resume) =>
            /\ files[json_of(k)] = File(src)
            /\ files[csv_of(k)] = Tabular(src, fieldnames_of(k))
            /\ ret = Len(src)
            /\ k \in DOMAIN progress
            /\ progress[k].completed = Len(src)
            /\ progress[k].total = Len(src)
            /\ progress[k].finished

\* a fresh export long enough to have checkpointed has returned, over files
\* an earlier run had written
C10_Witness ==
    /\ Returned("contacts")
    /\ ~resume
    /\ Len(src) >= CheckpointEvery
    /\ runs >= 2
    /\ start_entry # <<>>

\* C11: every export run that returns leaves its kind's entry stamped
\* finished = true with completed = total, a source without items included.
C11_ReturnStampsFinished ==
    \A k \in {"contacts", "chats", "chat_members"} :
        Returned(k) =>
            /\ k \in DOMAIN progress
            /\ progress[k].finished
            /\ progress[k].completed = progress[k].total

\* s is an initial segment of t
IsPrefix(s, t) == Len(s) <= Len(t) /\ SubSeq(t, 1, Len(s)) = s

MemberFileNames == {"members_csv", "members_json"}

\* C19: a chat-member file disappears only in a step of a fresh run
\* (resume = false), and in every step of a resumed run each chat-member
\* file that exists still exists afterwards with its old content as an
\* initial segment of the new one.
C19_ResumedRunKeepsMemberFiles ==
    [][\A f \in MemberFileNames :
          /\ (files[f].exists /\ ~files'[f].exists) =>
                (kind' = "chat_members" /\ ~resume')
          /\ (kind' = "chat_members" /\ resume' /\ files[f].exists) =>
                (files'[f].exists /\ IsPrefix(files[f].content, files'[f].content))
      ]_vars

\* the absolute position a contacts / chats run started at
start_completed == IF resume /\ start_entry # <<>> THEN start_entry[1].completed ELSE 0

\* the unfinished entries with completed = n for the multiples n of the
\* interval in lo+1 .. hi, in ascending order
list_checkpoints(lo, hi, total) ==
    LET Due(n) == n % CheckpointEvery = 0
        positions == SelectSeq([j \in 1..(IF hi > lo THEN hi - lo ELSE 0) |-> lo + j], Due)
    IN [j \in 1..Len(positions) |->
           [completed |-> positions[j], total |-> total, finished |-> FALSE,
            processed_items |-> <<>>]]

\* C20: the progress writes of a contacts / chats run are, in order, one
\* unfinished entry with completed = n for each multiple n of 10 among the
\* absolute positions buffered so far (the items skipped by a resume
\* counted), and, once the run has returned, one finished entry; nothing
\* else is written.
C20_ListProgressWrites ==
    \A k \in ListKinds :
        (kind = k /\ status \in {"running", "returned"}) =>
            IF pc = "idle"
            THEN saves = list_checkpoints(start_completed, Len(src), Len(src))
                         \o <<[completed |-> Len(src), total |-> Len(src),
                               finished |-> TRUE, processed_items |-> <<>>]>>
            ELSE saves = list_checkpoints(start_completed,
                                          start_completed + Len(item_list), Len(src))

\* a resumed contacts run that started past position 0 has returned after
\* one checkpoint and the final write
C20_Witness ==
    /\ Returned("contacts")
    /\ resume
    /\ start_completed > 0
    /\ Len(saves) = 2
    /\ ~saves[1].finished
    /\ saves[1].completed = CheckpointEvery

Last(s) == s[Len(s)]

\* this step is a call of op on a FileManager
IsCall(op) == Len(calls') = Len(calls) + 1 /\ Last(calls').op = op

\* C12: a load_progress that directly follows a save_progress(kind, data)
\* that did not raise returns a mapping whose entry for kind holds the
\* completed, total, finished and processed_items of data, and 0, 0, false
\* and the empty sequence for those data lacks.
C12_SaveThenLoad ==
    [][(/\ calls # <<>>
        /\ Last(calls).op = "save_progress"
        /\ ~Last(calls).raised
        /\ IsCall("load_progress"))
       => LET k == Last(calls).export_type
              d == Last(calls).data
              loaded == Last(calls')
          IN /\ ~loaded.raised
             /\ k \in DOMAIN loaded.ret
             /\ loaded.ret[k].completed =
                    (IF "completed" \in DOMAIN d THEN d.completed ELSE 0)
             /\ loaded.ret[k].total = (IF "total" \in DOMAIN d THEN d.total ELSE 0)
             /\ loaded.ret[k].finished =
                    (IF "finished" \in DOMAIN d THEN d.finished ELSE FALSE)
             /\ loaded.ret[k].processed_items =
                    (IF "processed_items" \in DOMAIN d THEN d.processed_items ELSE <<>>)
      ]_vars

\* a load has followed a save whose data supplied finished and
\* processed_items, and returned them
C12_Witness ==
    /\ Len(calls) >= 3
    /\ Last(calls).op = "load_progress"
    /\ ~Last(calls).raised
    /\ calls[Len(calls) - 1].op = "save_progress"
    /\ ~calls[Len(calls) - 1].raised
    /\ "finished" \in DOMAIN calls[Len(calls) - 1].data
    /\ Last(calls).ret[calls[Len(calls) - 1].export_type].finished
    /\ Last(calls).ret[calls[Len(calls) - 1].export_type].processed_items = <<1, 2>>

\* the mapping a progress file holds, none when the file is absent
doc_of(text) == IF text.exists THEN json_load(text) ELSE <<>>

\* C13: a save_progress(kind, ...) leaves the progress files of all other
\* sessions as they were and, in the file of its own session, every other
\* kind present or absent as before and with the entry it had.
C13_SaveReplacesOneEntry ==
    [][IsCall("save_progress")
       => LET c == Last(calls')
          IN /\ \A s \in Sessions \ {c.session} :
                    session_progress'[s] = session_progress[s]
             /\ c.raised => session_progress' = session_progress
             /\ ~c.raised =>
                    LET old == doc_of(session_progress[c.session])
                        new == doc_of(session_progress'[c.session])
                    IN \A k \in Kinds \ {c.export_type} :
                          /\ (k \in DOMAIN new) = (k \in DOMAIN old)
                          /\ k \in DOMAIN old => new[k] = old[k]
      ]_vars

\* a save has written the entry of one kind into a file that held the
\* entry of another kind, and the file holds both
C13_Witness ==
    /\ Len(calls) >= 3
    /\ Last(calls).op = "save_progress"
    /\ ~Last(calls).raised
    /\ calls[Len(calls) - 1].op = "save_progress"
    /\ ~calls[Len(calls) - 1].raised
    /\ calls[Len(calls) - 1].export_type # Last(calls).export_type
    /\ Len(session_progress[Last(calls).session].pairs) = 2

\* C14: load_progress never raises: without a progress file, and with one
\* that does not parse, it returns the empty mapping, and a save_progress
\* that follows under a session does not raise either.
C14_LoadFailsSoft ==
    \A j \in 1..Len(calls) :
        /\ calls[j].op = "load_progress" => ~calls[j].raised
        /\ (calls[j].op = "save_progress" /\ calls[j].session # NoSession) =>
              ~calls[j].raised

\* the chat-member files of session s hold exactly recs
MemberFilesHold(disk, s, recs) ==
    /\ disk[s]["members_json"] = File(recs)
    /\ disk[s]["members_csv"] = Tabular(recs, members_fieldnames)

\* a tabular file that exists starts with the header and has no second one
OneHeader(file, fieldnames) ==
    file.exists =>
        /\ Len(file.content) >= 1
        /\ \A j \in 1..Len(file.content) : (file.content[j] = fieldnames) = (j = 1)

\* C15: a save_chat_members_to_files(A, append) on a session without
\* chat-member files leaves files that hold exactly A; a
\* save_chat_members_to_files(B, append = true) that directly follows a
\* call with A after which the files held exactly A leaves the structured
\* file equal to A followed by B and the tabular file equal to one header,
\* A's rows, B's rows (A, B non-empty); and after every call the tabular
\* file has exactly one header row, its first.
C15_AppendConcatenates ==
    [][IsCall("save_chat_members_to_files")
       => LET c == Last(calls')
              s == c.session
          IN /\ (/\ ~c.raised
                 /\ c.members # <<>>
                 /\ ~session_files[s]["members_csv"].exists
                 /\ ~session_files[s]["members_json"].exists)
                => MemberFilesHold(session_files', s, c.members)
             /\ (/\ ~c.raised
                 /\ c.members # <<>>
                 /\ c.append
                 /\ calls # <<>>
                 /\ Last(calls).op = "save_chat_members_to_files"
                 /\ ~Last(calls).raised
                 /\ Last(calls).members # <<>>
                 /\ Last(calls).session = s
                 /\ MemberFilesHold(session_files, s, Last(calls).members))
                => MemberFilesHold(session_files', s, Last(calls).members \o c.members)
             /\ \A t \in Sessions :
                    OneHeader(session_files'[t]["members_csv"], members_fieldnames)
      ]_vars

\* two calls in a row, A asking for append on a session without files and
\* then another list B with append, have left A followed by B
C15_Witness ==
    /\ Len(calls) = 3
    /\ calls[2].op = "save_chat_members_to_files"
    /\ calls[3].op = "save_chat_members_to_files"
    /\ calls[2].append
    /\ calls[3].append
    /\ calls[2].members # <<>>
    /\ calls[3].members # <<>>
    /\ calls[2].members # calls[3].members
    /\ ~calls[3].raised
    /\ MemberFilesHold(session_files, calls[3].session,
                       calls[2].members \o calls[3].members)

\* C16: save_chat_members_to_files with an empty list does not raise,
\* returns 0 and leaves every file as it was, whatever the session, the
\* append flag and the files.
C16_EmptyListIsNoOp ==
    [][(IsCall("save_chat_members_to_files") /\ Last(calls').members = <<>>)
       => /\ ~Last(calls').raised
          /\ Last(calls').ret = 0
          /\ session_files' = session_files
      ]_vars

\* the empty list was handed over without a session, asking for append,
\* while chat-member files were on disk
C16_Witness ==
    /\ calls # <<>>
    /\ Last(calls).op = "save_chat_members_to_files"
    /\ Last(calls).members = <<>>
    /\ Last(calls).append
    /\ Last(calls).session = NoSession
    /\ Last(calls).ret = 0
    /\ \E s \in Sessions : session_files[s]["members_json"].exists

\* C17: save_contacts_to_files(R) and save_chats_to_files(R) under a
\* session leave that session's tabular file as the header plus R's rows
\* and its structured file as R, whatever they held, and return the length
\* of R; without a session they raise and no file changes.
C17_WriteFullReplaces ==
    [][\A k \in ListKinds :
          IsCall(IF k = "contacts" THEN "save_contacts_to_files" ELSE "save_chats_to_files")
          => LET c == Last(calls')
             IN IF c.session = NoSession
                THEN c.raised /\ session_files' = session_files
                ELSE /\ ~c.raised
                     /\ c.ret = Len(c.records)
                     /\ session_files'[c.session][csv_of(k)] =
                            Tabular(c.records, fieldnames_of(k))
                     /\ session_files'[c.session][json_of(k)] = File(c.records)
      ]_vars

\* save_chats_to_files has replaced files that held other records
C17_Witness ==
    /\ Len(calls) >= 3
    /\ Last(calls).op = "save_chats_to_files"
    /\ calls[Len(calls) - 1].op = "save_chats_to_files"
    /\ ~Last(calls).raised
    /\ ~calls[Len(calls) - 1].raised
    /\ Len(calls[Len(calls) - 1].records) = 2
    /\ Len(Last(calls).records) = 1
    /\ Last(calls).ret = 1
    /\ session_files[Last(calls).session]["dialogs_json"] = File(Last(calls).records)

\* the records the calls so far have put into the chat-member files of
\* session s: a removal empties them, a replacing write starts over, an
\* appending write adds at the end
RECURSIVE members_written(_, _)
members_written(cs, s) ==
    IF cs = <<>> THEN <<>>
    ELSE LET c == Last(cs)
             before == members_written(SubSeq(cs, 1, Len(cs) - 1), s)
         IN IF c.session # s THEN before
            ELSE IF c.op = "remove" THEN <<>>
            ELSE IF c.op = "save_chat_members_to_files" /\ ~c.raised /\ c.members # <<>>
                 THEN (IF c.append THEN before ELSE <<>>) \o c.members
            ELSE before

\* C18: after any sequence of calls the two chat-member files of a session
\* exist together, the tabular file is the header followed by the rows of
\* the structured file's records in the same order, and the structured
\* file holds every record written since the last replacement or removal.
C18_MemberFilesInSync ==
    \A s \in Sessions :
        LET csv == session_files[s]["members_csv"]
            json == session_files[s]["members_json"]
        IN /\ csv.exists = json.exists
           /\ csv.exists =>
                csv.content = <<members_fieldnames>>
                              \o csv_rows(json.content, members_fieldnames)
           /\ json.content = members_written(calls, s)

\* a replacing write and then an appending write have been made
C18_Witness ==
    /\ Len(calls) >= 3
    /\ Last(calls).op = "save_chat_members_to_files"
    /\ calls[Len(calls) - 1].op = "save_chat_members_to_files"
    /\ Last(calls).append
    /\ ~calls[Len(calls) - 1].append
    /\ Last(calls).session = calls[Len(calls) - 1].session
    /\ Last(calls).session # NoSession
    /\ Len(session_files[Last(calls).session]["members_json"].content) >= 3

\* processed_items of the persisted chat_members entry of a document
persisted_processed(doc) ==
    IF "chat_members" \in DOMAIN doc THEN Range(doc["chat_members"].processed_items) ELSE {}

\* both chat-member files hold the record of every participant of chat c
MembersPresent(fs, c) ==
    \A u \in participants(c) :
        LET rec == [chat_id |-> c, user_id |-> u]
        IN /\ rec \in Range(fs["members_json"].content)
           /\ csv_row(rec, members_fieldnames) \in Range(fs["members_csv"].content)

\* C28: progress never runs ahead of output. A chat that enters the
\* persisted processed_items after its fetch returned members has them in
\* both files at that moment, and no step takes the members of a chat out
\* of the files while the persisted processed_items list the chat.
C28_ProgressNotAheadOfOutput ==
    [][\A c \in persisted_processed(progress') :
          /\ (/\ c \notin persisted_processed(progress)
              /\ \E j \in 1..Len(attempts') :
                    attempts'[j].chat = c /\ attempts'[j].res = "ok")
             => MembersPresent(files', c)
          /\ MembersPresent(files, c) => MembersPresent(files', c)
      ]_vars

\* C29: in a resumed chat_members run whose upstream chat ids are all in
\* the persisted processed_items, no step fetches members, changes a file,
\* or changes the entry's completed or processed_items.
C29_ResumeIdempotent ==
    [][(/\ kind' = "chat_members"
        /\ resume'
        /\ status' \in {"running", "returned"}
        /\ start_entry' # <<>>
        /\ Range(src') \subseteq Range(start_entry'[1].processed_items))
       => /\ attempts' = <<>>
          /\ files' = files
          /\ "chat_members" \in DOMAIN progress
          /\ progress'["chat_members"].completed = progress["chat_members"].completed
          /\ progress'["chat_members"].processed_items =
                progress["chat_members"].processed_items
      ]_vars

\* such a run over two chats has returned, with member files on disk
C29_Witness ==
    /\ Returned("chat_members")
    /\ resume
    /\ start_entry # <<>>
    /\ Len(src) = 2
    /\ Range(src) \subseteq Range(start_processed)
    /\ Len(saves) = 1
    /\ files["members_json"].exists

\* C30: when a chat_members run over a non-empty upstream list has
\* returned, every upstream chat id is in the persisted processed_items,
\* and every upstream chat that the persisted processed_items did not list
\* when the run started had its member fetch attempted by the run.
C30_AtLeastOncePerChat ==
    (Returned("chat_members") /\ src # <<>>) =>
        /\ "chat_members" \in DOMAIN progress
        /\ Range(src) \subseteq Range(progress["chat_members"].processed_items)
        /\ \A c \in Range(src) \ Range(start_processed) : c \in Range(attempted_chats)

\* a resumed run has returned that found one upstream chat listed and
\* another not, and fetched the second
C30_Witness ==
    /\ Returned("chat_members")
    /\ resume
    /\ start_entry # <<>>
    /\ Len(src) = 2
    /\ Range(src) \cap Range(start_processed) # {}
    /\ Range(src) \ Range(start_processed) # {}
    /\ Len(attempts) = 1

\* the match records the cross-reference wrote
emitted ==
    IF match_ret.called /\ match_ret.ret > 0
    THEN match_files["matches_json"].content ELSE <<>>

\* the records of a dataset of the current session, none without the file
dataset(file) ==
    IF current_session # NoSession /\ session_files[current_session][file].exists
    THEN session_files[current_session][file].content ELSE <<>>

DatasetFile(source) ==
    IF source = "contacts" THEN "contacts_json"
    ELSE IF source = "chats" THEN "dialogs_json" ELSE "members_json"

\* the match record m was made from the record rec of the given source
MadeFrom(m, rec, source) ==
    /\ m.source = source
    /\ IF source = "chat_members"
       THEN m.id = rec.user_id /\ m.chat_id = rec.chat_id
       ELSE m.id = rec.id

\* the username is not empty and its lower-cased form is a target
Wanted(rec) ==
    /\ "username" \in DOMAIN rec
    /\ rec.username # <<>>
    /\ lower(rec.username) \in load_nicknames_list(nicknames_file)

\* C21: after a cross-reference under a session, a record of any of the
\* three datasets has a match record if and only if its username is not
\* empty and its lower-cased form is in the target set.
C21_MatchIsCaseInsensitiveExact ==
    (match_ret.called /\ current_session # NoSession) =>
        \A source \in Kinds :
            \A j \in 1..Len(dataset(DatasetFile(source))) :
                LET rec == dataset(DatasetFile(source))[j]
                IN (\E i \in 1..Len(emitted) : MadeFrom(emitted[i], rec, source))
                   <=> Wanted(rec)

\* with the target set {alice}, a contact named Alice was matched while
\* the contacts alice2 and the one without username were not
C21_Witness ==
    /\ match_ret.called
    /\ load_nicknames_list(nicknames_file) = {alice}
    /\ Len(dataset("contacts_json")) = 3
    /\ dataset("contacts_json")[1].username = Alice
    /\ dataset("contacts_json")[3].username = alice2
    /\ \E i \in 1..Len(emitted) : emitted[i].source = "contacts" /\ emitted[i].id = 1
    /\ \A i \in 1..Len(emitted) : emitted[i].source = "contacts" => emitted[i].id = 1

\* the field f of the match record m has the value v
Has(m, f, v) == f \in DOMAIN m /\ m[f] = v

\* C22: every written match record follows the table of its source:
\* contacts: is_contact true, is_premium and is_verified false,
\* last_message_date "", unread_count 0; chats: is_premium and is_verified
\* false, is_contact, last_message_date and unread_count as in the chat's
\* record; chat_members: is_contact false, last_message_date "",
\* unread_count 0, is_premium and is_verified as in the member's record;
\* and the tabular file holds the same records.
C22_PerSourceDefaults ==
    /\ match_files["matches_csv"].exists = match_files["matches_json"].exists
    /\ match_files["matches_csv"].exists =>
          match_files["matches_csv"].content =
              <<matches_fieldnames>>
              \o csv_rows(match_files["matches_json"].content, matches_fieldnames)
    /\ \A i \in 1..Len(emitted) :
          LET m == emitted[i]
          IN /\ m.source = "contacts" =>
                  /\ Has(m, "is_contact", TRUE)
                  /\ Has(m, "is_premium", FALSE)
                  /\ Has(m, "is_verified", FALSE)
                  /\ Has(m, "last_message_date", "")
                  /\ Has(m, "unread_count", 0)
             /\ m.source = "chats" =>
                  /\ Has(m, "is_premium", FALSE)
                  /\ Has(m, "is_verified", FALSE)
                  /\ \E j \in 1..Len(dataset("dialogs_json")) :
                        LET rec == dataset("dialogs_json")[j]
                        IN /\ MadeFrom(m, rec, "chats")
                           /\ Has(m, "is_contact", rec.is_contact)
                           /\ Has(m, "last_message_date", rec.last_message_date)
                           /\ Has(m, "unread_count", rec.unread_count)
             /\ m.source = "chat_members" =>
                  /\ Has(m, "is_contact", FALSE)
                  /\ Has(m, "last_message_date", "")
                  /\ Has(m, "unread_count", 0)
                  /\ \E j \in 1..Len(dataset("members_json")) :
                        LET rec == dataset("members_json")[j]
                        IN /\ MadeFrom(m, rec, "chat_members")
                           /\ Has(m, "is_premium", rec.is_premium)
                           /\ Has(m, "is_verified", rec.is_verified)

\* matches of all three sources were written, among them a chat with
\* unread messages and a premium member
C22_Witness ==
    /\ \E i \in 1..Len(emitted) : emitted[i].source = "contacts"
    /\ \E i \in 1..Len(emitted) :
          emitted[i].source = "chats" /\ emitted[i].unread_count = 3
    /\ \E i \in 1..Len(emitted) :
          emitted[i].source = "chat_members" /\ emitted[i].is_premium

\* C23: every match record written has every one of the 15 fields of the
\* matches schema.
C23_AllFieldsPopulated ==
    \A i \in 1..Len(emitted) :
        \A j \in 1..Len(matches_fieldnames) : matches_fieldnames[j] \in DOMAIN emitted[i]

SourceRank(source) ==
    IF source = "contacts" THEN 1 ELSE IF source = "chats" THEN 2 ELSE 3

\* where in its dataset the record of the match record m stands
PlaceOf(m) ==
    CHOOSE j \in 1..Len(dataset(DatasetFile(m.source))) :
        MadeFrom(m, dataset(DatasetFile(m.source))[j], m.source)

\* C24: the match records come contacts first, then chats, then chat
\* members, within a source in the order of its file, one for each wanted
\* record of each dataset whose file is there; a missing file adds none.
C24_MatchOrder ==
    (match_ret.called /\ current_session # NoSession) =>
        /\ \A i, j \in 1..Len(emitted) :
              i < j =>
                /\ SourceRank(emitted[i].source) <= SourceRank(emitted[j].source)
                /\ emitted[i].source = emitted[j].source =>
                      PlaceOf(emitted[i]) < PlaceOf(emitted[j])
        /\ \A source \in Kinds :
              Cardinality({i \in 1..Len(emitted) : emitted[i].source = source})
              = Cardinality({j \in 1..Len(dataset(DatasetFile(source))) :
                               Wanted(dataset(DatasetFile(source))[j])})

\* two matches from each of the other two sources were written although
\* the contacts file is missing
C24_Witness ==
    /\ match_ret.called
    /\ current_session # NoSession
    /\ ~session_files[current_session]["contacts_json"].exists
    /\ Len(emitted) = 4
    /\ emitted[1].source = "chats"
    /\ emitted[2].source = "chats"
    /\ emitted[3].source = "chat_members"
    /\ emitted[4].source = "chat_members"

\* the alphanumeric characters of a text, in their order
RECURSIVE KeepAlnum(_)
KeepAlnum(str) ==
    IF str = <<>> THEN <<>>
    ELSE IF Head(str) \in Digits \cup Letters
         THEN <<Head(str)>> \o KeepAlnum(Tail(str))
         ELSE KeepAlnum(Tail(str))

\* "session_79991234567"
session_79991234567 ==
    <<"s", "e", "s", "s", "i", "o", "n", "_",
      "7", "9", "9", "9", "1", "2", "3", "4", "5", "6", "7">>

\* C25: create_session_name(phone) is "session_" followed by the
\* alphanumeric characters of phone in their original order, every other
\* character removed; "+7 (999) 123-45-67" and "+79991234567" both give
\* "session_79991234567".
C25_SessionNameIsAlnumOfPhone ==
    session_name # <<>> =>
        /\ session_name = <<"s", "e", "s", "s", "i", "o", "n", "_">> \o KeepAlnum(phone)
        /\ (phone \in {phone_formatted, phone_plain}
              => session_name = session_79991234567)

\* the formatted phone has been turned into its session name
C25_Witness ==
    /\ phone = phone_formatted
    /\ session_name = session_79991234567

\* the text of an info file has a pair under key k
HasPair(text, k) == \E j \in 1..Len(text.pairs) : text.pairs[j][1] = k

\* the file is missing, does not parse, or lacks one of the three keys
NoRecord(text) ==
    \/ ~text.exists
    \/ ~text.closed
    \/ \E k \in {"api_id", "api_hash", "phone"} : ~HasPair(text, k)

\* the last handler was create_new_session and it saved a session
Created == sm_ret.op = "create" /\ sm_ret.name # NoSession

\* the last handler ended in ensure_connection for a selected session
Connecting ==
    /\ sm_ret.op \in {"create", "select", "back", "export"}
    /\ sm_ret.name # NoSession

\* C26: after save_session_info(name, api_id, api_hash, phone),
\* get_session_info(name) and get_session_credentials(name) return those
\* three values; get_session_credentials returns nothing when the record is
\* missing, unparsable or lacks one of the three, and then ensure_connection
\* refuses and no export runs.
C26_CredentialsRoundTrip ==
    /\ Created =>
          LET info == get_session_info(session_info, sm_ret.name)
              creds == get_session_credentials(session_info, sm_ret.name)
          IN /\ {"api_id", "api_hash", "phone"} \subseteq DOMAIN info
             /\ info["api_id"] = sm_ret.api_id
             /\ info["api_hash"] = sm_ret.api_hash
             /\ info["phone"] = sm_ret.phone
             /\ creds = [found |-> TRUE, api_id |-> sm_ret.api_id,
                         api_hash |-> sm_ret.api_hash, phone |-> sm_ret.phone]
    /\ \A s \in Sessions :
          NoRecord(session_info[s]) => ~get_session_credentials(session_info, s).found
    /\ (Connecting /\ NoRecord(session_info[sm_ret.name]))
          => ~sm_ret.connected /\ ~sm_ret.exported

\* an export was chosen for a session whose record does not parse, and was
\* refused; the other session's saved record is still readable
C26_Witness ==
    /\ sm_ret.op = "export"
    /\ sm_ret.name # NoSession
    /\ session_info[sm_ret.name].exists
    /\ ~session_info[sm_ret.name].closed
    /\ ~sm_ret.exported
    /\ \E s \in Sessions : get_session_credentials(session_info, s).found

\* both records agree on key k: absent from both, or the same value
SameField(a, b, k) ==
    /\ k \in DOMAIN a <=> k \in DOMAIN b
    /\ k \in DOMAIN a => a[k] = b[k]

\* C27: a selection or a connection changes nothing of a session's record
\* but last_used: update_last_used(name) leaves api_id, api_hash, phone and
\* created of that session as they were, and every other session's record
\* untouched.
C27_OnlyLastUsedChanges ==
    [][/\ sm_ret'.op \in {"select", "back", "export"} =>
            \A s \in Sessions :
                /\ \A k \in {"api_id", "api_hash", "phone", "created"} :
                      SameField(get_session_info(session_info, s),
                                get_session_info(session_info', s), k)
                /\ s # sm_ret'.name => session_info'[s] = session_info[s]
       /\ sm_ret'.op = "create" =>
            \A s \in Sessions :
                s # sm_ret'.name => session_info'[s] = session_info[s]
      ]_vars

\* a session has been selected and stamped after its creation, with its
\* credentials still readable, while another session has a record too
C27_Witness ==
    /\ sm_ret.op = "select"
    /\ sm_ret.connected
    /\ LET info == get_session_info(session_info, sm_ret.name)
       IN /\ get_session_credentials(session_info, sm_ret.name).found
          /\ info["last_used"] > info["created"] + 1
    /\ \E s \in Sessions \ {sm_ret.name} : session_info[s].exists

\* the rows of the tabular chat-member file that are records, not headers
member_rows(fs) ==
    LET not_header(row) == row # members_fieldnames
    IN SelectSeq(fs["members_csv"].content, not_header)

\* C33: over one fresh chat_members run followed by resumed runs, with an
\* interruption allowed between any two operations, no (chat_id, user_id)
\* record is in the tabular file twice and none is in the structured file
\* twice.
C33_NoMemberWrittenTwice ==
    (kind = "chat_members" /\ runs >= 1 /\ (runs > 1 => resume)) =>
        /\ Distinct(files["members_json"].content)
        /\ Distinct(member_rows(files))

\* no process is inside a save_progress call
AllIdle == \A p \in Procs : proc_pc[p] = "idle"

\* the document on disk holds, under the process's kind, the entry the
\* process saved last
EntryKept(p) ==
    /\ session_progress[shared_session].exists
    /\ session_progress[shared_session].closed
    /\ \E j \in 1..Len(session_progress[shared_session].pairs) :
          /\ session_progress[shared_session].pairs[j][1] = proc_kind(p)
          /\ <<session_progress[shared_session].pairs[j][2]>> = proc_saved[p].entry

\* C31: save_progress is a read-modify-write of the whole document with no
\* coordination. As long as no call has begun while a call of the other
\* process was under way, every process's last saved entry is in the
\* document whenever no call is in progress; interleaved calls for two
\* different kinds can lose an entry.
C31_SequentialSavesKeepEntries ==
    (AllIdle /\ ~proc_overlap) =>
        \A p \in Procs : proc_saved[p].n > 0 => EntryKept(p)

\* a lost update: both processes have saved, nothing is in progress, the
\* document parses and holds the second process's entry, and the first
\* process's saved entry is not in it
C31_Witness ==
    /\ AllIdle
    /\ proc_overlap
    /\ proc_saved[1].n > 0
    /\ proc_saved[2].n > 0
    /\ session_progress[shared_session].closed
    /\ EntryKept(2)
    /\ ~EntryKept(1)

\* the records a match file holds, none without the file
held(file) == IF match_files[file].exists THEN match_files[file].content ELSE <<>>

\* C38: after cross_reference_nicknames has returned n, the structured
\* matches file holds n records and the tabular one n rows under its
\* header; after a run without a match neither holds a record.
C38_MatchFilesHoldThisRun ==
    match_ret.called =>
        /\ Len(held("matches_json")) = match_ret.ret
        /\ Len(held("matches_csv")) = (IF match_files["matches_csv"].exists
                                       THEN match_ret.ret + 1 ELSE 0)

\* the session has a last_used value
Used(s) == "last_used" \in DOMAIN get_session_info(session_info, s)

\* C32: at start-up initialize_sessions selects the most recently used of
\* the listed sessions; a session without a last_used value is not put
\* before one that has been used.
C32_StartSelectsMostRecentlyUsed ==
    (sm_ret.op = "start" /\ session_blob # {}) =>
        /\ sm_ret.name \in session_blob
        /\ \A r \in session_blob :
              Used(r) =>
                 /\ Used(sm_ret.name)
                 /\ get_session_info(session_info, sm_ret.name)["last_used"]
                       >= get_session_info(session_info, r)["last_used"]

\* C36: when an export runs, the client was created with the session file
\* and credentials of the session that is selected and whose directory the
\* export writes into.
C36_ExportUsesSelectedSessionsClient ==
    (sm_ret.op = "export" /\ sm_ret.exported) =>
        /\ client = menu_session
        /\ current_session = menu_session

\* C37: whenever the main menu is about to show the progress of previous
\* exports, and whenever the nickname cross-reference reads the session's
\* files, the FileManager's session is the session selected in the menu.
C37_FileManagerFollowsMenu ==
    [][/\ app' = "running" => current_session' = menu_session'
       /\ match_ret' # match_ret => current_session = menu_session
      ]_vars

\* the persisted chat_members entry of export.py, as a zero- or one-element
\* sequence
legacy_entry(doc) == IF "chat_members" \in DOMAIN doc THEN <<doc["chat_members"]>> ELSE <<>>

\* C39: in export.py every chat_members checkpoint saved during a resumed
\* run has completed equal to the resume offset plus the chats handled in
\* the run, and completed does not go down.
C39_LegacyCheckpointIsAbsolute ==
    [][(/\ legacy_run.resume
        /\ legacy_pc = "loop"
        /\ legacy_pc' = "loop"
        /\ legacy_progress' # legacy_progress)
       => /\ legacy_progress'["chat_members"].completed =
                legacy_completed_chats + legacy_processed_chats'
          /\ legacy_entry(legacy_progress) # <<>> =>
                legacy_progress'["chat_members"].completed >=
                    legacy_progress["chat_members"].completed
      ]_vars

\* C34: while export_chat_members runs, processed_chat_ids and the persisted
\* processed_items hold no chat id twice, and completed_chats has grown by
\* exactly one for each chat the run has handled, also when save_progress
\* raised after the chat was marked.
C34_EachChatMarkedOnce ==
    (kind = "chat_members" /\ pc \in {"m_loop", "m_save"}) =>
        /\ Distinct(processed_chat_ids)
        /\ \A i \in 1..Len(entry_of(progress, "chat_members")) :
              Distinct(entry_of(progress, "chat_members")[i].processed_items)
        /\ completed_chats = start_completed + Len(attempts)

\* the progress document holds an unfinished entry for an export kind
unfinished_entry(doc, k) == k \in DOMAIN doc /\ ~doc[k].finished

\* C35: when the persisted progress holds an unfinished entry for an export,
\* choosing that export from the main menu (choices 2 to 5) puts the resume
\* question, and the export then starts with resume true exactly when the
\* question was put and the answer was affirmative.
C35_MenuOffersResume ==
    [][/\ menu_ask' # menu_ask =>
            \A i \in 1..Len(choice_kinds(menu_ask'.choice)) :
                LET k == choice_kinds(menu_ask'.choice)[i]
                IN unfinished_entry(progress, k) => menu_ask'.asked[k]
       /\ runs' = runs + 1 =>
            resume' = (/\ menu_ask.asked[kind']
                       /\ answer_lower(menu_ask.typed[kind']) \in {"y", "yes", "da", "d"})
      ]_vars

====
